---- MODULE Spec2Model ----
(***************************************************************************)
(* A model of the repository's command-line tools that the checked         *)
(* properties are about:                                                   *)
(*   - clawd/ceramics/ceramics.py and ceramics-photo.py: the ceramics      *)
(*     inventory over the SQLite tables pieces, photos, sales and          *)
(*     social_posts;                                                       *)
(*   - skills/large-file-analyzer/scripts/chunk_processor.py and           *)
(*     data_analyzer.py: the chunked CSV reader and the per-chunk          *)
(*     analysis and merge;                                                 *)
(*   - skills/sharepoint/scripts/sharepoint.py: the SharePoint CLI;        *)
(*   - skills/newsletter-digest/scripts/parse-html.py: HTMLSanitizer;      *)
(*   - personal-scripts/vikunja-sync-twenty.py: the sync wrapper;          *)
(*   - skills/ollama-persona/scripts/chat.py: the interactive chat loop;   *)
(*   - .cursor-server/data/User/History/2e6cd579/edf0.py: the PARA task    *)
(*     manager over the SQLite table tasks.                                *)
(* Python's Optional values are sequences of length at most one: <<>> is   *)
(* None (SQL NULL) and <<v>> is the value v.                               *)
(***************************************************************************)
EXTENDS Integers, Sequences, FiniteSets, TLC

VARIABLES
    pieces,        \* table pieces: piece id -> row
    photos,        \* table photos: sequence of rows, in rowid order
    sales,         \* table sales: sequence of rows, in rowid order
    social_posts,  \* table social_posts: sequence of rows, in rowid order
    now,           \* the wall clock when the commands run
    ret,           \* the last ceramics command: what was asked, when, and its exit code
    file_rows,       \* the CSV file: the rows csv.DictReader produces, in file order
    file_readable,   \* whether the file can be opened and decoded
    max_chunk_size,  \* ChunkProcessor.max_chunk_size
    analysis_type,   \* the analysis asked of process_large_file
    rd_pos,          \* _read_csv_chunks: rows read so far
    chunk,           \* _read_csv_chunks: the batch being filled
    gen_pc,          \* _read_csv_chunks: where the generator stands
    batches,         \* the batches yielded so far, in yield order
    total_rows,      \* _process_csv_file: total_rows
    chunk_count,     \* _process_csv_file: chunk_count
    chunk_results,   \* the list of per-batch results
    final_result,    \* what _process_csv_file / merge_chunk_results returned
    proc_pc,         \* _process_csv_file: "idle", "iter" or "done"
    sp_env,          \* sharepoint.py: os.environ.get of the three SHAREPOINT_* variables
    sp_printed,      \* sharepoint.py: what the run printed, in order
    sp_error,        \* sharepoint.py: the error the command met, or None
    sp_exit,         \* sharepoint.py: the exit code of the process, None before it ran
    html_events,     \* parse-html.py: the events HTMLParser.feed produces, in order
    ev_pos,          \* parse-html.py: events handled so far
    text_parts,      \* HTMLSanitizer.text_parts
    skip_content,    \* HTMLSanitizer.skip_content
    clean_text,      \* parse-html.py: what get_text() returned, None before the call
    child,           \* vikunja-sync-twenty.py: the finished child (returncode, stdout, stderr)
    wr_stdout,       \* vikunja-sync-twenty.py: what was written to sys.stdout
    wr_stderr,       \* vikunja-sync-twenty.py: what was written to sys.stderr
    wr_exit,         \* vikunja-sync-twenty.py: main's return value, None before it ran
    history,         \* chat.py: the list history of chat()
    chat_pc,         \* chat.py: "input" at the prompt for user input, "exited" after the loop
    chat_prompt,     \* chat.py: the prompt of the last request to Ollama, None before one
    chat_printed,    \* chat.py: what the last turn of the loop printed
    tasks,           \* edf0.py: table tasks, task id -> row
    para_now,        \* edf0.py: int(time.time()) when the commands run
    para_out         \* edf0.py: the last command and what it printed

ceramics_vars == <<pieces, photos, sales, social_posts, now, ret>>
reader_vars == <<file_rows, file_readable, max_chunk_size, rd_pos, chunk, gen_pc, batches>>
process_vars == <<analysis_type, total_rows, chunk_count, chunk_results, final_result, proc_pc>>
sharepoint_vars == <<sp_env, sp_printed, sp_error, sp_exit>>
sanitizer_vars == <<html_events, ev_pos, text_parts, skip_content, clean_text>>
wrapper_vars == <<child, wr_stdout, wr_stderr, wr_exit>>
chat_vars == <<history, chat_pc, chat_prompt, chat_printed>>
para_vars == <<tasks, para_now, para_out>>
tools_vars == <<sharepoint_vars, sanitizer_vars, wrapper_vars, chat_vars, para_vars>>

(***************************************************************************)
(* Bounds                                                                  *)
(***************************************************************************)
MaxPieces == 2
MaxSales == 1
MaxPhotos == 2
MaxPosts == 1

None == <<>>
Some(v) == <<v>>
IsNone(o) == o = <<>>
Val(o) == o[1]

(***************************************************************************)
(* ceramics.py: enums and the status workflow                              *)
(***************************************************************************)
STATUSES == <<"in-progress", "ready-for-sale", "listed", "sold", "archived", "gifted">>

PLATFORMS == <<"etsy", "shopify", "instagram", "in-person", "gallery", "show",
               "wholesale", "custom", "other">>

Range(s) == {s[i] : i \in 1..Len(s)}

STATUS_FLOW ==
    [s \in Range(STATUSES) |->
        CASE s = "in-progress"    -> <<"ready-for-sale", "archived">>
          [] s = "ready-for-sale" -> <<"listed", "archived", "in-progress">>
          [] s = "listed"         -> <<"sold", "archived", "ready-for-sale">>
          [] s = "sold"           -> <<"archived">>
          [] s = "archived"       -> <<"in-progress", "ready-for-sale">>
          [] s = "gifted"         -> <<>>]

\* STATUS_FLOW.get(from_status, []): a status that is no key has no successor.
FlowGet(from_status) ==
    IF from_status \in DOMAIN STATUS_FLOW THEN STATUS_FLOW[from_status] ELSE <<>>

\* Mutants of is_valid_status_transition: no validation; the arguments swapped.
is_valid_status_transition_any(from_status, to_status) == TRUE

is_valid_status_transition_swapped(from_status, to_status) ==
    IF from_status = to_status
    THEN TRUE
    ELSE from_status \in Range(FlowGet(to_status))

is_valid_status_transition(from_status, to_status) ==
    IF from_status = to_status
    THEN TRUE
    ELSE to_status \in Range(FlowGet(from_status))

(***************************************************************************)
(* generate_piece_id: name.lower().replace(' ', '-').replace("'", "")[:20] *)
(* followed by the clock to the minute.  A name is a sequence of           *)
(* one-character strings.                                                  *)
(***************************************************************************)
PrefixLen == 20

LowerChar(c) ==
    CASE c = "A" -> "a" [] c = "B" -> "b" [] c = "C" -> "c" [] c = "M" -> "m"
      [] c = "U" -> "u" [] c = "G" -> "g" [] c = "P" -> "p" [] c = "Q" -> "q"
      [] OTHER -> c

Lower(s) == [i \in 1..Len(s) |-> LowerChar(s[i])]

ReplaceSpace(s) == [i \in 1..Len(s) |-> IF s[i] = " " THEN "-" ELSE s[i]]

RECURSIVE DropQuotes(_)
DropQuotes(s) ==
    IF s = <<>> THEN <<>>
    ELSE IF Head(s) = "'" THEN DropQuotes(Tail(s))
    ELSE <<Head(s)>> \o DropQuotes(Tail(s))

Take(s, n) == IF Len(s) <= n THEN s ELSE SubSeq(s, 1, n)

generate_piece_id(name, clock) ==
    [prefix |-> Take(DropQuotes(ReplaceSpace(Lower(name))), PrefixLen), ts |-> clock]

(***************************************************************************)
(* Rows and command results                                                *)
(***************************************************************************)
NoId == [prefix |-> <<>>, ts |-> -1]

Ret(cmd, id, status, opts, code) ==
    [cmd |-> cmd, id |-> id, status |-> status, opts |-> opts, code |-> code,
     msg |-> "", at |-> now]

\* print(f"Piece not found: {piece_id}"); conn.close(); return 1
NotFound(cmd, id, status, opts) ==
    [Ret(cmd, id, status, opts, 1) EXCEPT !.msg = "Piece not found"]

TYPES == <<"vase", "bowl", "plate", "mug", "sculpture", "planter", "other">>
FIRING_TYPES == <<"bisque", "glaze", "raku", "wood", "gas", "electric">>

\* float(text): the parsed value, or None where float() raises ValueError.
ParseFloat(text) ==
    CASE text = "10" -> Some(10)
      [] text = "20" -> Some(20)
      [] text = "0"  -> Some(0)
      [] OTHER -> None

\* Mutant of NewPiece: the initial status misspelt.
NewPiece_typo(in) ==
    [name |-> in.name, type |-> in.type, dimensions |-> in.dimensions,
     glaze |-> in.glaze,
     price |-> IF in.price_input = "" THEN None ELSE ParseFloat(in.price_input),
     cost |-> IF in.cost_input = "" THEN None ELSE ParseFloat(in.cost_input),
     series |-> IF in.series = "" THEN None ELSE Some(in.series),
     notes |-> IF in.notes = "" THEN None ELSE Some(in.notes),
     status |-> "in_progress",
     completed_date |-> None, listed_date |-> None, sold_date |-> None]

\* The row INSERT INTO pieces writes; the date columns start NULL.  The
\* columns firing_type and materials are written here only and are left out.
NewPiece(in) ==
    [name |-> in.name, type |-> in.type, dimensions |-> in.dimensions,
     glaze |-> in.glaze,
     price |-> IF in.price_input = "" THEN None ELSE ParseFloat(in.price_input),
     cost |-> IF in.cost_input = "" THEN None ELSE ParseFloat(in.cost_input),
     series |-> IF in.series = "" THEN None ELSE Some(in.series),
     notes |-> IF in.notes = "" THEN None ELSE Some(in.notes),
     status |-> "in-progress",
     completed_date |-> None, listed_date |-> None, sold_date |-> None]

PhotoPath(piece_id, angle, ts, idx, ext) ==
    [piece_id |-> piece_id, angle |-> angle, ts |-> ts, idx |-> idx, ext |-> ext]

PhotoRow(piece_id, path, angle, is_primary) ==
    [piece_id |-> piece_id, path |-> path, angle |-> angle, is_primary |-> is_primary]

\* args.angles[i] if args.angles and i < len(args.angles) else dflt  (i from 0)
AngleAt(angles, i, dflt) == IF i < Len(angles) THEN angles[i + 1] ELSE dflt

\* The photo loop of ceramics.py cmd_add: rows for files i.. of the list.
RECURSIVE AddPhotoRows(_, _, _, _, _)
AddPhotoRows(piece_id, files, angles, i, clock) ==
    IF i >= Len(files) THEN <<>>
    ELSE LET f == files[i + 1]
             angle == AngleAt(angles, i, "other")
             rest == AddPhotoRows(piece_id, files, angles, i + 1, clock)
         IN  IF f.exists /\ f.ext \in {".jpg", ".jpeg", ".png"}
             THEN <<PhotoRow(piece_id, PhotoPath(piece_id, angle, clock, None, f.ext),
                             angle, IF i = 0 THEN 1 ELSE 0)>> \o rest
             ELSE rest

AddInputInvalid(in) ==
    \/ in.name = <<>>
    \/ in.type \notin Range(TYPES)
    \/ in.glaze = ""
    \/ (in.price_input # "" /\ IsNone(ParseFloat(in.price_input)))
    \/ (in.cost_input # "" /\ IsNone(ParseFloat(in.cost_input)))
    \/ (in.firing # "" /\ in.firing \notin Range(FIRING_TYPES))

(***************************************************************************)
(* ceramics add                                                            *)
(***************************************************************************)
cmd_add(in) ==
    LET piece_id == generate_piece_id(in.name, now)
        rows == AddPhotoRows(piece_id, in.photos, in.angles, 0, now)
    IN  /\ Len(photos) + Len(in.photos) <= MaxPhotos
        /\ IF AddInputInvalid(in)
           THEN /\ ret' = Ret("add", NoId, None, {}, 1)
                /\ UNCHANGED <<pieces, photos>>
           ELSE IF piece_id \in DOMAIN pieces
           THEN \* sqlite3.IntegrityError: the id is taken
                /\ ret' = Ret("add", piece_id, None, {}, 1)
                /\ UNCHANGED <<pieces, photos>>
           ELSE /\ Cardinality(DOMAIN pieces) < MaxPieces
                /\ pieces' = (piece_id :> NewPiece(in)) @@ pieces
                /\ photos' = photos \o rows
                /\ ret' = Ret("add", piece_id, None, {}, 0)
        /\ UNCHANGED <<sales, social_posts, now>>

(***************************************************************************)
(* ceramics update                                                         *)
(***************************************************************************)
UpdateFields == {"name", "glaze", "price", "cost", "series", "dimensions", "notes"}

\* The options of the command line that are not None.
GivenOpts(args) == {f \in UpdateFields : ~IsNone(args[f])}

\* Mutant of StatusDates: the date is stamped whatever the old status was.
StatusDates_always(old_status, new_status, clock) ==
    IF new_status = "ready-for-sale"
    THEN "completed_date" :> Some(clock)
    ELSE IF new_status = "listed"
    THEN "listed_date" :> Some(clock)
    ELSE IF new_status = "sold"
    THEN "sold_date" :> Some(clock)
    ELSE <<>>

\* The date column a status change stamps (lines 308-314).
StatusDates(old_status, new_status, clock) ==
    IF new_status = "ready-for-sale" /\ old_status # "ready-for-sale"
    THEN "completed_date" :> Some(clock)
    ELSE IF new_status = "listed" /\ old_status # "listed"
    THEN "listed_date" :> Some(clock)
    ELSE IF new_status = "sold" /\ old_status # "sold"
    THEN "sold_date" :> Some(clock)
    ELSE <<>>

StatusUpdates(piece, args, clock) ==
    IF IsNone(args.status) THEN <<>>
    ELSE ("status" :> Val(args.status))
         @@ StatusDates(piece.status, Val(args.status), clock)

\* Mutant of FieldUpdates: --notes is written whether it was given or not.
FieldUpdates_notes(args) ==
    (IF ~IsNone(args.name) /\ Val(args.name) # <<>>
        THEN "name" :> Val(args.name) ELSE <<>>)
    @@ (IF ~IsNone(args.glaze) /\ Val(args.glaze) # ""
        THEN "glaze" :> Val(args.glaze) ELSE <<>>)
    @@ (IF ~IsNone(args.price) THEN "price" :> args.price ELSE <<>>)
    @@ (IF ~IsNone(args.cost) THEN "cost" :> args.cost ELSE <<>>)
    @@ (IF ~IsNone(args.series) THEN "series" :> args.series ELSE <<>>)
    @@ (IF ~IsNone(args.dimensions) THEN "dimensions" :> Val(args.dimensions) ELSE <<>>)
    @@ ("notes" :> args.notes)

\* `if args.name:` and `if args.glaze:` test truth, the others `is not None`.
FieldUpdates(args) ==
    (IF ~IsNone(args.name) /\ Val(args.name) # <<>>
        THEN "name" :> Val(args.name) ELSE <<>>)
    @@ (IF ~IsNone(args.glaze) /\ Val(args.glaze) # ""
        THEN "glaze" :> Val(args.glaze) ELSE <<>>)
    @@ (IF ~IsNone(args.price) THEN "price" :> args.price ELSE <<>>)
    @@ (IF ~IsNone(args.cost) THEN "cost" :> args.cost ELSE <<>>)
    @@ (IF ~IsNone(args.series) THEN "series" :> args.series ELSE <<>>)
    @@ (IF ~IsNone(args.dimensions) THEN "dimensions" :> Val(args.dimensions) ELSE <<>>)
    @@ (IF ~IsNone(args.notes) THEN "notes" :> args.notes ELSE <<>>)

\* UPDATE pieces SET k = ? ... for the keys of the dict.
ApplyUpdates(piece, updates) ==
    [f \in DOMAIN piece |-> IF f \in DOMAIN updates THEN updates[f] ELSE piece[f]]

cmd_update(id, args) ==
    /\ UNCHANGED <<photos, sales, social_posts, now>>
    /\ IF id \notin DOMAIN pieces
       THEN /\ ret' = NotFound("update", id, args.status, GivenOpts(args))
            /\ UNCHANGED pieces
       ELSE LET piece == pieces[id]
                updates == StatusUpdates(piece, args, now) @@ FieldUpdates(args)
            IN  IF ~IsNone(args.status)
                   /\ ~is_valid_status_transition(piece.status, Val(args.status))
                THEN /\ ret' = Ret("update", id, args.status, GivenOpts(args), 1)
                     /\ UNCHANGED pieces
                ELSE IF DOMAIN updates = {}
                THEN /\ ret' = Ret("update", id, args.status, GivenOpts(args), 0)
                     /\ UNCHANGED pieces
                ELSE /\ pieces' = [pieces EXCEPT ![id] = ApplyUpdates(piece, updates)]
                     /\ ret' = Ret("update", id, args.status, GivenOpts(args), 0)

(***************************************************************************)
(* ceramics show                                                           *)
(***************************************************************************)
\* Mutant of cmd_show: a piece that is not there is reported as shown.
cmd_show_quiet(id) ==
    /\ UNCHANGED <<pieces, photos, sales, social_posts, now>>
    /\ ret' = Ret("show", id, None, {}, 0)

\* cmd_show only reads: the piece, its photos and its sales.
cmd_show(id) ==
    /\ UNCHANGED <<pieces, photos, sales, social_posts, now>>
    /\ IF id \notin DOMAIN pieces
       THEN ret' = NotFound("show", id, None, {})
       ELSE ret' = Ret("show", id, None, {}, 0)

(***************************************************************************)
(* ceramics sale                                                           *)
(***************************************************************************)
SaleRow(piece_id, sale_price, platform) ==
    [piece_id |-> piece_id, sale_price |-> sale_price, platform |-> platform]

\* Lines 870-874: --price when truthy, else the typed price, else the
\* piece's own price.  ok is FALSE where float() raises ValueError.
SalePrice(piece, a) ==
    IF ~IsNone(a.price) /\ Val(a.price) # 0
    THEN [ok |-> TRUE, price |-> a.price]
    ELSE IF a.price_input = ""
    THEN [ok |-> TRUE, price |-> piece.price]
    ELSE [ok |-> ~IsNone(ParseFloat(a.price_input)), price |-> ParseFloat(a.price_input)]

\* Lines 876-880: --platform when given, else the typed platform.
SalePlatform(a) == IF ~IsNone(a.platform) THEN Val(a.platform) ELSE a.platform_input

\* UPDATE pieces SET status = 'sold', sold_date = ? WHERE id = ?
MarkSold(piece, clock) == [piece EXCEPT !.status = "sold", !.sold_date = Some(clock)]

\* strict: the sales table declares sale_price NOT NULL (the schema is not
\* part of the sources, so both schemas are followed).
cmd_sale(id, a, strict) ==
    /\ Len(sales) < MaxSales
    /\ UNCHANGED <<photos, social_posts, now>>
    /\ IF id \notin DOMAIN pieces
       THEN /\ ret' = NotFound("sale", id, None, {})
            /\ UNCHANGED <<pieces, sales>>
       ELSE LET piece == pieces[id]
                sp == SalePrice(piece, a)
                platform == SalePlatform(a)
            IN  IF ~sp.ok
                THEN \* ValueError leaves the process: exit code 1, no commit
                     /\ ret' = Ret("sale", id, None, {}, 1)
                     /\ UNCHANGED <<pieces, sales>>
                ELSE IF platform \notin Range(PLATFORMS)
                THEN /\ ret' = Ret("sale", id, None, {}, 1)
                     /\ UNCHANGED <<pieces, sales>>
                ELSE IF IsNone(sp.price) /\ strict
                THEN \* the INSERT raises; rollback
                     /\ ret' = Ret("sale", id, None, {}, 1)
                     /\ UNCHANGED <<pieces, sales>>
                ELSE /\ sales' = Append(sales, SaleRow(id, sp.price, platform))
                     /\ pieces' = [pieces EXCEPT ![id] = MarkSold(piece, now)]
                     \* after the commit, f"{sale_price:.2f}" raises on None
                     /\ ret' = Ret("sale", id, None, {}, IF IsNone(sp.price) THEN 1 ELSE 0)

(***************************************************************************)
(* ceramics photo                                                          *)
(***************************************************************************)
\* The loop of cmd_photo --add: rows for files i.. of the list.
RECURSIVE PhotoRows(_, _, _, _, _, _)
PhotoRows(piece_id, files, angles, primary, i, clock) ==
    IF i >= Len(files) THEN <<>>
    ELSE LET f == files[i + 1]
             angle == AngleAt(angles, i, "other")
             rest == PhotoRows(piece_id, files, angles, primary, i + 1, clock)
         IN  IF f.exists /\ f.ext \in {".jpg", ".jpeg", ".png"}
             THEN <<PhotoRow(piece_id, PhotoPath(piece_id, angle, clock, Some(i), f.ext),
                             angle, IF primary /\ i = 0 THEN 1 ELSE 0)>> \o rest
             ELSE rest

PieceExistsAlways(id) == TRUE

\* SELECT ... FROM pieces WHERE id = ? returned a row.
PieceExists(id) == id \in DOMAIN pieces

cmd_photo(id, a) ==
    /\ Len(photos) + Len(a.files) <= MaxPhotos
    /\ UNCHANGED <<pieces, sales, social_posts, now>>
    /\ IF ~PieceExists(id)
       THEN /\ ret' = NotFound("photo", id, None, {})
            /\ UNCHANGED photos
       ELSE IF a.add
       THEN IF a.files = <<>>
            THEN /\ ret' = Ret("photo", id, None, {}, 1)
                 /\ UNCHANGED photos
            ELSE /\ photos' = photos \o PhotoRows(id, a.files, a.angles, a.primary, 0, now)
                 /\ ret' = Ret("photo", id, None, {}, 0)
       ELSE \* --list
            /\ ret' = Ret("photo", id, None, {}, 0)
            /\ UNCHANGED photos

(***************************************************************************)
(* ceramics-photo add                                                      *)
(***************************************************************************)
\* The loop of ceramics-photo.py cmd_add: one timestamp for the whole run,
\* every file written as .jpg, no row for a file whose processing failed.
RECURSIVE PhotoToolRows(_, _, _, _)
PhotoToolRows(piece_id, a, i, clock) ==
    IF i >= Len(a.files) THEN <<>>
    ELSE LET f == a.files[i + 1]
             angle == AngleAt(a.angles, i, a.angle)
             rest == PhotoToolRows(piece_id, a, i + 1, clock)
         IN  IF /\ f.exists
                /\ f.ext \in {".jpg", ".jpeg", ".png", ".tiff", ".tif"}
                /\ (a.process => f.ok)
             THEN <<PhotoRow(piece_id, PhotoPath(piece_id, angle, clock, None, ".jpg"),
                             angle, IF a.primary /\ i = 0 THEN 1 ELSE 0)>> \o rest
             ELSE rest

photo_cmd_add(id, a) ==
    /\ Len(photos) + Len(a.files) <= MaxPhotos
    /\ a.files # <<>>
    /\ UNCHANGED <<pieces, sales, social_posts, now>>
    /\ IF ~PieceExists(id)
       THEN /\ ret' = NotFound("photo-add", id, None, {})
            /\ UNCHANGED photos
       ELSE /\ photos' = photos \o PhotoToolRows(id, a, 0, now)
            /\ ret' = Ret("photo-add", id, None, {}, 0)

(***************************************************************************)
(* ceramics post                                                           *)
(***************************************************************************)
PostRow(piece_id, platform, style) ==
    [piece_id |-> piece_id, platform |-> platform, status |-> "draft", style |-> style]

cmd_post(id, a) ==
    /\ Len(social_posts) < MaxPosts
    /\ UNCHANGED <<pieces, photos, sales, now>>
    /\ IF ~PieceExists(id)
       THEN /\ ret' = NotFound("post", id, None, {})
            /\ UNCHANGED social_posts
       ELSE /\ social_posts' =
                IF a.save
                THEN Append(social_posts,
                            PostRow(id, IF IsNone(a.platform) THEN "instagram" ELSE Val(a.platform),
                                    IF IsNone(a.style) THEN "aesthetic" ELSE Val(a.style)))
                ELSE social_posts
            /\ ret' = Ret("post", id, None, {}, 0)

(***************************************************************************)
(* Inputs of the ceramics commands                                         *)
(***************************************************************************)
NameMug == <<"M", "u", "g">>
NameMugLower == <<"m", "u", "g">>
NameCup == <<"C", "u", "p">>

AddInput(name, price_input, files, angles) ==
    [name |-> name, type |-> "mug", dimensions |-> "4x4 in", glaze |-> "celadon",
     price_input |-> price_input, cost_input |-> "", series |-> "", firing |-> "",
     notes |-> "", photos |-> files, angles |-> angles]

\* Ids a command line can name: those of the pieces, and one that is no piece's.
GhostId == [prefix |-> <<"x">>, ts |-> 0]
IdArgs == DOMAIN pieces \cup {GhostId}

OptStatus == {None} \cup {Some(s) : s \in Range(STATUSES)}

NoOpts ==
    [name |-> None, glaze |-> None, price |-> None, cost |-> None,
     series |-> None, dimensions |-> None, notes |-> None]
AllOpts ==
    [name |-> Some(<<"J", "u", "g">>), glaze |-> Some("shino"), price |-> Some(25),
     cost |-> Some(5), series |-> Some("spring"), dimensions |-> Some("5x5 in"),
     notes |-> Some("reglazed")]

UpdateArgs == {[status |-> st] @@ o : st \in OptStatus, o \in {NoOpts, AllOpts}}

SaleArg(price, price_input, platform, platform_input) ==
    [price |-> price, price_input |-> price_input,
     platform |-> platform, platform_input |-> platform_input]

SaleArgs ==
    {SaleArg(Some(30), "", Some("etsy"), ""),   \* --price 30 --platform etsy
     SaleArg(None, "", None, "etsy"),           \* Enter at the price prompt
     SaleArg(None, "20", Some("etsy"), ""),     \* a typed price
     SaleArg(None, "abc", Some("etsy"), ""),    \* a typed price float() rejects
     SaleArg(Some(0), "", None, "ebay")}        \* a typed platform not in PLATFORMS

JpgFile == [exists |-> TRUE, ext |-> ".jpg", ok |-> TRUE]
PngFile == [exists |-> TRUE, ext |-> ".png", ok |-> TRUE]
GifFile == [exists |-> TRUE, ext |-> ".gif", ok |-> TRUE]
BadJpgFile == [exists |-> TRUE, ext |-> ".jpg", ok |-> FALSE]
LostFile == [exists |-> FALSE, ext |-> ".jpg", ok |-> TRUE]

ceramics_Init ==
    /\ pieces = <<>>
    /\ photos = <<>>
    /\ sales = <<>>
    /\ social_posts = <<>>
    /\ now = 0
    /\ ret = Ret("none", NoId, None, {}, 0)

(***************************************************************************)
(* large-file-analyzer: values                                             *)
(* A Python dict is a function; d.get(key, default) is Get.  A batch is    *)
(* tagged with its Python type: _read_csv_chunks yields lists of dicts,    *)
(* pandas builds DataFrames.                                               *)
(***************************************************************************)
MaxRows == 3
MaxChunkSize == 2
MaxResults == 2
MaxDfRows == 1

Get(d, key, default) == IF key \in DOMAIN d THEN d[key] ELSE default

Columns == <<"a", "b">>

\* A cell as csv.DictReader hands it over: a string, or None (restval) where
\* the line is shorter than the header.
RawRows ==
    {[c \in Range(Columns) |-> IF c = "a" THEN x ELSE y] :
        x \in {Some("1"), Some("")}, y \in {Some("2"), Some(""), None}}

\* cleaned_row = {k: v if v != '' else None for k, v in row.items()}
CleanRow(row) == [k \in DOMAIN row |-> IF row[k] # Some("") THEN row[k] ELSE None]

ListOf(rows) == [kind |-> "list", rows |-> rows]
DataFrameOf(columns, rows) == [kind |-> "DataFrame", columns |-> columns, rows |-> rows]

(***************************************************************************)
(* chunk_processor.py: _read_csv_chunks, a generator                       *)
(* gen_pc: "loop" in the for loop, "yielded" suspended at the yield of the *)
(* loop, "yielded_last" suspended at the yield after the loop, "done".     *)
(***************************************************************************)
\* Mutant of ChunkFull: a batch is handed over one row late.
ChunkFull_gt(len, size) == len > size

\* if len(chunk) >= self.max_chunk_size
ChunkFull(len, size) == len >= size

\* One turn of `for row in reader`.
ReadRow ==
    /\ file_readable
    /\ gen_pc = "loop"
    /\ rd_pos < Len(file_rows)
    /\ LET filled == Append(chunk, CleanRow(file_rows[rd_pos + 1]))
       IN  IF ChunkFull(Len(filled), max_chunk_size)
           THEN /\ batches' = Append(batches, ListOf(filled))
                /\ chunk' = <<>>
                /\ gen_pc' = "yielded"
           ELSE /\ chunk' = filled
                /\ UNCHANGED <<batches, gen_pc>>
    /\ rd_pos' = rd_pos + 1
    /\ UNCHANGED <<file_rows, file_readable, max_chunk_size>>

\* Mutant of HasRemainder: the rows left after the loop are forgotten.
HasRemainder_never(rows) == FALSE

\* `if chunk:` after the loop
HasRemainder(rows) == rows # <<>>

\* The reader is exhausted: `if chunk: yield chunk`.
EndOfFile ==
    /\ file_readable
    /\ gen_pc = "loop"
    /\ rd_pos = Len(file_rows)
    /\ IF HasRemainder(chunk)
       THEN /\ batches' = Append(batches, ListOf(chunk))
            /\ gen_pc' = "yielded_last"
       ELSE /\ gen_pc' = "done"
            /\ UNCHANGED batches
    /\ UNCHANGED <<file_rows, file_readable, max_chunk_size, rd_pos, chunk>>

\* open() or the decoding raises: the except clause yields one empty batch.
ReadFails ==
    /\ ~file_readable
    /\ gen_pc = "loop"
    /\ batches' = Append(batches, ListOf(<<>>))
    /\ gen_pc' = "yielded_last"
    /\ UNCHANGED <<file_rows, file_readable, max_chunk_size, rd_pos, chunk>>

\* next() on the suspended generator: it runs on from the yield.
Resume ==
    /\ gen_pc \in {"yielded", "yielded_last"}
    /\ gen_pc' = IF gen_pc = "yielded" THEN "loop" ELSE "done"
    /\ UNCHANGED <<file_rows, file_readable, max_chunk_size, rd_pos, chunk, batches>>

(***************************************************************************)
(* data_analyzer.py                                                        *)
(***************************************************************************)
Raised(msg) == [raised |-> msg]
IsRaised(r) == "raised" \in DOMAIN r

CountMissing(df, col) ==
    Cardinality({i \in 1..Len(df.rows) : IsNone(Get(df.rows[i], col, None))})

\* _generate_summary(df).  len(df) is defined for a list, df.columns is
\* not: a list raises AttributeError.  The dtype and describe() entries of
\* the summary are pandas' own and are left out.
generate_summary(df) ==
    IF df.kind # "DataFrame"
    THEN Raised("'list' object has no attribute 'columns'")
    ELSE [shape |-> [rows |-> Len(df.rows), columns |-> Len(df.columns)],
          columns |-> df.columns,
          missing_values |-> [col \in Range(df.columns) |-> CountMissing(df, col)]]

demographic_cols == {"age", "gender", "location", "city", "country", "region"}
segment_cols == {"segment", "category", "tier", "group", "type"}
metric_cols == {"revenue", "spend", "activity", "score", "rating", "frequency"}

\* The cells of a column that are not NaN / None, in row order.
RECURSIVE Present(_, _)
Present(rows, col) ==
    IF rows = <<>> THEN <<>>
    ELSE (IF IsNone(Head(rows)[col]) THEN <<>> ELSE <<Val(Head(rows)[col])>>)
         \o Present(Tail(rows), col)

\* df[col].value_counts().to_dict(): value -> number of rows holding it,
\* NaN not counted.
value_counts(df, col) ==
    LET cells == Present(df.rows, col)
    IN  [v \in Range(cells) |-> Cardinality({i \in 1..Len(cells) : cells[i] = v})]

\* pd.api.types.is_numeric_dtype(df[col]) for a metric column of a frame
\* built by pd.DataFrame(list of dicts), whose cells are numbers or None in
\* this model: a column with a number in it is float64 or int64, a column
\* of nothing but None, or without rows, is object.
is_numeric_dtype(df, col) == Present(df.rows, col) # <<>>

\* df[col].sum(), NaN skipped.
RECURSIVE SumCells(_)
SumCells(cells) == IF cells = <<>> THEN 0 ELSE Head(cells) + SumCells(Tail(cells))

\* _analyze_user_profile(df).  Of the key metrics "mean" is pandas' own and
\* is left out; a demographic column is counted like a segment column (the
\* frames of this model hold no numeric demographic column).
analyze_user_profile(df) ==
    IF df.kind # "DataFrame"
    THEN Raised("'list' object has no attribute 'columns'")
    ELSE [demographics |->
             [col \in demographic_cols \cap Range(df.columns) |-> value_counts(df, col)],
          segments |->
             [col \in segment_cols \cap Range(df.columns) |-> value_counts(df, col)],
          key_metrics |->
             [col \in {c \in metric_cols \cap Range(df.columns) : is_numeric_dtype(df, c)} |->
                 LET cells == Present(df.rows, col)
                 IN  [total |-> SumCells(cells),
                      max |-> CHOOSE x \in Range(cells) : \A y \in Range(cells) : y <= x,
                      min |-> CHOOSE x \in Range(cells) : \A y \in Range(cells) : x <= y]]]

\* analyze_csv_chunk: the "user_profile" and "summary" branches and the
\* branch of an unknown type; "behavior_patterns" is not asked for in this
\* model.
analyze_csv_chunk(df, type) ==
    IF type = "user_profile" THEN analyze_user_profile(df)
    ELSE IF type = "summary" THEN generate_summary(df)
    ELSE [error |-> "Unknown analysis type"]

\* r.get("shape", {}).get("rows", 0)
ShapeRows(r) == Get(Get(r, "shape", <<>>), "rows", 0)

\* r.get("missing_values", {}).get(col, 0)
MissingOf(r, col) == Get(Get(r, "missing_values", <<>>), col, 0)

\* sum(r.get("shape", {}).get("rows", 0) for r in results)
RECURSIVE SumShapeRows(_)
SumShapeRows(results) ==
    IF results = <<>> THEN 0
    ELSE ShapeRows(Head(results)) + SumShapeRows(Tail(results))

\* sum(r.get("missing_values", {}).get(col, 0) for r in results)
RECURSIVE SumMissing(_, _)
SumMissing(results, col) ==
    IF results = <<>> THEN 0
    ELSE MissingOf(Head(results), col) + SumMissing(Tail(results), col)

\* Mutant of merge_summary_results: only the first batch is counted.

merge_summary_results_first(results) ==
    [total_rows |-> ShapeRows(results[1]),
     columns |-> Get(results[1], "columns", <<>>),
     missing_values_total |->
        IF "missing_values" \in DOMAIN results[1]
        THEN [col \in DOMAIN results[1].missing_values |-> results[1].missing_values[col]]
        ELSE <<>>]

\* _merge_summary_results
merge_summary_results(results) ==
    [total_rows |-> SumShapeRows(results),
     columns |-> Get(results[1], "columns", <<>>),
     missing_values_total |->
        IF "missing_values" \in DOMAIN results[1]
        THEN [col \in DOMAIN results[1].missing_values |-> SumMissing(results, col)]
        ELSE <<>>]

\* Mutant of MergeCounts: a later batch's count replaces the count so far.
MergeCounts_overwrite(sofar, counts) ==
    [key \in DOMAIN sofar \cup DOMAIN counts |->
        IF key \in DOMAIN counts THEN counts[key] ELSE sofar[key]]

\* for key, value in counts.items():
\*     merged["segments"][col][key] = merged["segments"][col].get(key, 0) + value
MergeCounts(sofar, counts) ==
    [key \in DOMAIN sofar \cup DOMAIN counts |->
        IF key \in DOMAIN counts THEN Get(sofar, key, 0) + counts[key] ELSE sofar[key]]

\* The body of `for result in results` of _merge_profile_results.
MergeProfileResult(merged, result) ==
    [demographics |->
        IF "demographics" \notin DOMAIN result THEN merged.demographics
        ELSE [col \in DOMAIN merged.demographics \cup DOMAIN result.demographics |->
                 IF col \notin DOMAIN merged.demographics THEN result.demographics[col]
                 ELSE IF col \in DOMAIN result.demographics
                 THEN "aggregated_from_multiple_chunks"
                 ELSE merged.demographics[col]],
     segments |->
        IF "segments" \notin DOMAIN result THEN merged.segments
        ELSE [col \in DOMAIN merged.segments \cup DOMAIN result.segments |->
                 IF col \notin DOMAIN merged.segments THEN result.segments[col]
                 ELSE IF col \in DOMAIN result.segments
                 THEN MergeCounts(merged.segments[col], result.segments[col])
                 ELSE merged.segments[col]],
     key_metrics |->
        IF "key_metrics" \notin DOMAIN result THEN merged.key_metrics
        ELSE [col \in DOMAIN merged.key_metrics \cup DOMAIN result.key_metrics |->
                 IF col \notin DOMAIN merged.key_metrics THEN result.key_metrics[col]
                 ELSE IF col \in DOMAIN result.key_metrics
                 THEN [merged.key_metrics[col] EXCEPT
                          !.total = @ + result.key_metrics[col].total]
                 ELSE merged.key_metrics[col]]]

\* _merge_profile_results
RECURSIVE MergeProfileFrom(_, _)
MergeProfileFrom(merged, results) ==
    IF results = <<>> THEN merged
    ELSE MergeProfileFrom(MergeProfileResult(merged, Head(results)), Tail(results))

merge_profile_results(results) ==
    MergeProfileFrom([demographics |-> <<>>, segments |-> <<>>, key_metrics |-> <<>>], results)

\* merged["segments"][col] and merged["key_metrics"][col] are the dict
\* objects of the first result that has the column, and the merge writes
\* into them: after the call that result holds the merged counts and total.
MergedInPlace(results, merged) ==
    LET First(section, col) ==
            CHOOSE i \in 1..Len(results) :
                /\ section \in DOMAIN results[i] /\ col \in DOMAIN results[i][section]
                /\ \A j \in 1..(i - 1) :
                       ~(section \in DOMAIN results[j] /\ col \in DOMAIN results[j][section])
        Written(i, section) ==
            [col \in DOMAIN results[i][section] |->
                IF First(section, col) = i THEN merged[section][col]
                ELSE results[i][section][col]]
    IN  [i \in 1..Len(results) |->
            [key \in DOMAIN results[i] |->
                IF key \in {"segments", "key_metrics"} THEN Written(i, key)
                ELSE results[i][key]]]

\* merge_chunk_results; the behavior_patterns merger is not modelled here.
merge_chunk_results(results, type) ==
    IF results = <<>> THEN [error |-> "No chunk results to merge"]
    ELSE IF type = "summary" THEN merge_summary_results(results)
    ELSE IF type = "user_profile" THEN merge_profile_results(results)
    ELSE results[1]

(***************************************************************************)
(* chunk_processor.py: _process_csv_file                                   *)
(***************************************************************************)
\* The keys final_result.update(...) writes (file_size_bytes left out).
Totals(type, rows, chunks) ==
    [analysis_type |-> type, total_rows_processed |-> rows,
     total_chunks_processed |-> chunks, file_format |-> "csv"]

\* The body of `for chunk in self._read_csv_chunks(file_path)` for the
\* batch the generator has just yielded; an exception of the analysis
\* leaves the loop for the except clause, which returns an error dict.
ProcessChunk ==
    /\ proc_pc = "iter"
    /\ gen_pc \in {"yielded", "yielded_last"}
    /\ total_rows' = total_rows + Len(batches[Len(batches)].rows)
    /\ chunk_count' = chunk_count + 1
    /\ LET chunk_result == analyze_csv_chunk(batches[Len(batches)], analysis_type)
       IN  IF IsRaised(chunk_result)
           THEN /\ final_result' =
                       [error |-> <<"Error processing CSV file: ", chunk_result.raised>>]
                /\ proc_pc' = "done"
                /\ UNCHANGED <<chunk_results, gen_pc>>
           ELSE /\ chunk_results' = Append(chunk_results, chunk_result)
                /\ gen_pc' = IF gen_pc = "yielded" THEN "loop" ELSE "done"
                /\ UNCHANGED <<final_result, proc_pc>>
    /\ UNCHANGED <<analysis_type, file_rows, file_readable, max_chunk_size, rd_pos,
                   chunk, batches>>

\* After the loop: merge, then final_result.update(...).  os.path.getsize
\* raises when the file does not exist, one way of being unreadable.
FinishProcess(getsize_ok) ==
    /\ proc_pc = "iter"
    /\ gen_pc = "done"
    /\ final_result' =
          IF file_readable \/ getsize_ok
          THEN Totals(analysis_type, total_rows, chunk_count)
               @@ merge_chunk_results(chunk_results, analysis_type)
          ELSE [error |-> <<"Error processing CSV file: ", "No such file or directory">>]
    /\ proc_pc' = "done"
    /\ UNCHANGED <<analysis_type, total_rows, chunk_count, chunk_results, reader_vars>>

\* The analyzer at rest: no file is being read.
analyzer_Idle ==
    /\ file_rows = <<>>
    /\ file_readable = TRUE
    /\ max_chunk_size = 1
    /\ analysis_type = "summary"
    /\ rd_pos = 0
    /\ chunk = <<>>
    /\ gen_pc = "done"
    /\ batches = <<>>
    /\ total_rows = 0
    /\ chunk_count = 0
    /\ chunk_results = <<>>
    /\ final_result = <<>>
    /\ proc_pc = "idle"

(***************************************************************************)
(* Spec: the inventory under add, update and sale                          *)
(***************************************************************************)
\* The other tools at rest: none of them has run.
sharepoint_Idle ==
    /\ sp_env = [c \in {"SHAREPOINT_TENANT_ID", "SHAREPOINT_CLIENT_ID",
                       "SHAREPOINT_CLIENT_SECRET"} |-> <<>>]
    /\ sp_printed = <<>>
    /\ sp_error = None
    /\ sp_exit = None

sanitizer_Idle ==
    /\ html_events = <<>>
    /\ ev_pos = 0
    /\ text_parts = <<>>
    /\ skip_content = FALSE
    /\ clean_text = None

wrapper_Idle ==
    /\ child = [returncode |-> 0, stdout |-> <<>>, stderr |-> <<>>]
    /\ wr_stdout = <<>>
    /\ wr_stderr = <<>>
    /\ wr_exit = None

chat_Idle ==
    /\ history = <<>>
    /\ chat_pc = "input"
    /\ chat_prompt = None
    /\ chat_printed = <<>>

para_Idle ==
    /\ tasks = <<>>
    /\ para_now = 0
    /\ para_out = [cmd |-> "", arg |-> <<>>, printed |-> <<>>]

tools_Idle == sharepoint_Idle /\ sanitizer_Idle /\ wrapper_Idle /\ chat_Idle /\ para_Idle

vars == <<ceramics_vars, reader_vars, process_vars, tools_vars>>

Init == ceramics_Init /\ analyzer_Idle /\ tools_Idle

Add ==
    /\ \E n \in {NameMug, NameMugLower, <<>>}, p \in {"", "10"} :
           cmd_add(AddInput(n, p, <<>>, <<>>))
    /\ UNCHANGED <<reader_vars, process_vars, tools_vars>>
Update ==
    /\ \E id \in IdArgs, args \in UpdateArgs : cmd_update(id, args)
    /\ UNCHANGED <<reader_vars, process_vars, tools_vars>>
Sale ==
    /\ \E id \in IdArgs, a \in SaleArgs, strict \in BOOLEAN : cmd_sale(id, a, strict)
    /\ UNCHANGED <<reader_vars, process_vars, tools_vars>>

Next == Add \/ Update \/ Sale

Spec == Init /\ [][Next]_vars

(***************************************************************************)
(* Claims about the status workflow (specification Spec)                   *)
(***************************************************************************)
\* The step is `update --status T` on the existing piece ret'.id.
IsStatusUpdate ==
    /\ ret'.cmd = "update"
    /\ ret'.id \in DOMAIN pieces
    /\ ~IsNone(ret'.status)

\* C1: `update --status T` on a piece in status S, with T # S and T not in
\* STATUS_FLOW[S], returns 1 and leaves the whole table pieces as it was,
\* whatever other options the command carries.
C1_InvalidTransitionRejected ==
    [][(/\ IsStatusUpdate
        /\ Val(ret'.status) # pieces[ret'.id].status
        /\ Val(ret'.status) \notin Range(STATUS_FLOW[pieces[ret'.id].status]))
       => (ret'.code = 1 /\ pieces' = pieces)]_vars

\* A rejected update that also carried every field option.
C1_Witness ==
    /\ ret.cmd = "update"
    /\ ret.id \in DOMAIN pieces
    /\ ret.code = 1
    /\ ret.opts = UpdateFields
    /\ ~IsNone(ret.status)
    /\ Val(ret.status) # pieces[ret.id].status
    /\ Val(ret.status) \notin Range(STATUS_FLOW[pieces[ret.id].status])
    /\ pieces[ret.id].glaze = "celadon"

\* C2 (as claimed): every change of a piece's stored status follows an edge
\* of STATUS_FLOW or leaves the status as it is.
C2_EveryChangeFollowsFlow ==
    [][\A id \in DOMAIN pieces :
          \/ pieces'[id].status = pieces[id].status
          \/ pieces'[id].status \in Range(STATUS_FLOW[pieces[id].status])]_vars

WorkflowPairs ==
    {<<"in-progress", "ready-for-sale">>, <<"ready-for-sale", "listed">>,
     <<"listed", "sold">>, <<"sold", "archived">>}

\* C3: each step of the documented workflow in-progress -> ready-for-sale ->
\* listed -> sold -> archived, asked by `update --status`, returns 0 and
\* leaves the piece in the status asked for.
C3_WorkflowAccepted ==
    [][(/\ IsStatusUpdate
        /\ <<pieces[ret'.id].status, Val(ret'.status)>> \in WorkflowPairs)
       => (ret'.code = 0 /\ pieces'[ret'.id].status = Val(ret'.status))]_vars

\* A piece walked to archived by updates alone: no sale was recorded and
\* every date of the workflow is stamped.
C3_Witness ==
    /\ ret.cmd = "update"
    /\ ret.code = 0
    /\ ret.status = Some("archived")
    /\ ret.id \in DOMAIN pieces
    /\ sales = <<>>
    /\ LET p == pieces[ret.id]
       IN  /\ p.status = "archived"
           /\ ~IsNone(p.completed_date)
           /\ ~IsNone(p.listed_date)
           /\ ~IsNone(p.sold_date)

\* C4 (as claimed): from status sold, `update --status archived` and
\* `update --status gifted` are both accepted.
C4_SoldToArchivedOrGifted ==
    [][(/\ IsStatusUpdate
        /\ pieces[ret'.id].status = "sold"
        /\ Val(ret'.status) \in {"archived", "gifted"})
       => (ret'.code = 0 /\ pieces'[ret'.id].status = Val(ret'.status))]_vars

\* C5: the status column of every piece holds one of the six STATUSES.
C5_StatusInEnum ==
    \A id \in DOMAIN pieces : pieces[id].status \in Range(STATUSES)

\* A piece sold through `sale` after an update had moved it on.
C5_Witness ==
    \E id \in DOMAIN pieces :
        /\ pieces[id].status = "sold"
        /\ ~IsNone(pieces[id].completed_date)
        /\ Len(sales) = 1

\* C16 (as claimed): `sale` is all-or-nothing: a run either commits both a
\* new sales row for the piece and the piece's status = sold with sold_date
\* set, or commits neither; whenever it returns 1, no sales row has been
\* added and the table pieces is as it was.
C16_SaleAllOrNothing ==
    [][ret'.cmd = "sale"
       => /\ \/ sales' = sales /\ pieces' = pieces
             \/ /\ ret'.id \in DOMAIN pieces
                /\ Len(sales') = Len(sales) + 1
                /\ sales'[Len(sales')].piece_id = ret'.id
                /\ pieces'[ret'.id].status = "sold"
                /\ ~IsNone(pieces'[ret'.id].sold_date)
          /\ (ret'.code = 1 => (sales' = sales /\ pieces' = pieces))]_vars

\* C17 (as claimed): the id generate_piece_id hands to an `add` differs from
\* the id of every piece added before, also for the same name within the
\* same clock minute.
C17_GeneratedIdsDiffer ==
    [][(ret'.cmd = "add" /\ ret'.id # NoId) => ret'.id \notin DOMAIN pieces]_vars

(***************************************************************************)
(* SpecRef: the four tables under add, photo --add, sale, post --save and  *)
(* ceramics-photo add                                                      *)
(***************************************************************************)
PhotoArg(add, files, angles, primary) ==
    [add |-> add, files |-> files, angles |-> angles, primary |-> primary]

PhotoArgs ==
    {PhotoArg(TRUE, <<GifFile, PngFile>>, <<"front">>, TRUE),
     PhotoArg(TRUE, <<>>, <<>>, FALSE),
     PhotoArg(FALSE, <<>>, <<>>, FALSE)}

PhotoToolArg(files, angles, angle, primary, process) ==
    [files |-> files, angles |-> angles, angle |-> angle, primary |-> primary,
     process |-> process]

PhotoToolArgs ==
    {PhotoToolArg(<<LostFile, PngFile>>, <<>>, "other", FALSE, FALSE),
     PhotoToolArg(<<BadJpgFile, JpgFile>>, <<"front">>, "side", TRUE, TRUE),
     PhotoToolArg(<<JpgFile, PngFile>>, <<>>, "front", TRUE, FALSE)}

PostArgs == [style : {None}, platform : {None}, save : BOOLEAN]

RefSaleArgs ==
    {SaleArg(Some(30), "", Some("etsy"), ""),
     SaleArg(None, "", None, "ebay")}

RefAdd ==
    /\ \E n \in {NameMug, NameCup}, files \in {<<>>, <<JpgFile>>} :
           cmd_add(AddInput(n, "10", files, <<"front">>))
    /\ UNCHANGED <<reader_vars, process_vars, tools_vars>>
RefPhoto ==
    /\ \E id \in IdArgs, a \in PhotoArgs : cmd_photo(id, a)
    /\ UNCHANGED <<reader_vars, process_vars, tools_vars>>
RefPhotoTool ==
    /\ \E id \in IdArgs, a \in PhotoToolArgs : photo_cmd_add(id, a)
    /\ UNCHANGED <<reader_vars, process_vars, tools_vars>>
RefSale ==
    /\ \E id \in IdArgs, a \in RefSaleArgs, strict \in BOOLEAN : cmd_sale(id, a, strict)
    /\ UNCHANGED <<reader_vars, process_vars, tools_vars>>
RefPost ==
    /\ \E id \in IdArgs, a \in PostArgs : cmd_post(id, a)
    /\ UNCHANGED <<reader_vars, process_vars, tools_vars>>

NextRef == RefAdd \/ RefPhoto \/ RefPhotoTool \/ RefPost \/ RefSale

SpecRef == Init /\ [][NextRef]_vars

\* C6: every row of photos, sales and social_posts carries the id of an
\* existing row of pieces (so a command given an id that is no piece's has
\* inserted no row).
C6_ReferencesExist ==
    /\ \A i \in 1..Len(photos) : photos[i].piece_id \in DOMAIN pieces
    /\ \A i \in 1..Len(sales) : sales[i].piece_id \in DOMAIN pieces
    /\ \A i \in 1..Len(social_posts) : social_posts[i].piece_id \in DOMAIN pieces

\* All three tables hold rows and the last command, naming an id that is
\* no piece's, was turned away.
C6_Witness ==
    /\ photos # <<>>
    /\ sales # <<>>
    /\ social_posts # <<>>
    /\ ret.cmd \in {"photo", "photo-add"}
    /\ ret.id \notin DOMAIN pieces
    /\ ret.code = 1

\* The rows a step appended to photos.
AddedPhotos == SubSeq(photos', Len(photos) + 1, Len(photos'))

\* C14 (as claimed): whenever `ceramics photo <id> --add --primary --files ...`
\* or `ceramics-photo add ... --primary` adds at least one photo, the first
\* photo the command added is marked is_primary = 1 and no other is.
C14_FirstPhotoPrimary ==
    [][\A id \in IdArgs :
          (\/ \E a \in PhotoArgs : a.add /\ a.primary /\ cmd_photo(id, a)
           \/ \E a \in PhotoToolArgs : a.primary /\ photo_cmd_add(id, a))
              => (AddedPhotos # <<>>
                    => /\ AddedPhotos[1].is_primary = 1
                       /\ \A i \in 2..Len(AddedPhotos) : AddedPhotos[i].is_primary = 0)]_vars

\* C20 (as claimed): in one `ceramics-photo add` invocation any two photos
\* rows inserted have different paths, also when several input files share
\* the same angle.
C20_PathsDiffer ==
    [][\A id \in IdArgs, a \in PhotoToolArgs :
          photo_cmd_add(id, a)
              => \A i, j \in 1..Len(AddedPhotos) :
                     i # j => AddedPhotos[i].path # AddedPhotos[j].path]_vars

(***************************************************************************)
(* SpecChunks: _read_csv_chunks driven to exhaustion by next()             *)
(***************************************************************************)
RECURSIVE SeqsUpTo(_, _)
\* The sequences over S of length at most n.
SeqsUpTo(S, n) ==
    IF n = 0 THEN {<<>>}
    ELSE LET shorter == SeqsUpTo(S, n - 1)
         IN  shorter \cup {Append(q, x) : q \in {r \in shorter : Len(r) = n - 1}, x \in S}

\* A file is opened: the generator stands at the head of its loop.
reader_Init ==
    /\ file_rows \in SeqsUpTo(RawRows, MaxRows)
    /\ file_readable \in BOOLEAN
    /\ max_chunk_size \in 0..MaxChunkSize
    /\ rd_pos = 0
    /\ chunk = <<>>
    /\ gen_pc = "loop"
    /\ batches = <<>>

process_Idle ==
    /\ analysis_type = "summary"
    /\ total_rows = 0
    /\ chunk_count = 0
    /\ chunk_results = <<>>
    /\ final_result = <<>>
    /\ proc_pc = "idle"

InitChunks == ceramics_Init /\ reader_Init /\ process_Idle /\ tools_Idle

ChunksReadRow == ReadRow /\ UNCHANGED <<ceramics_vars, process_vars, tools_vars>>
ChunksEndOfFile == EndOfFile /\ UNCHANGED <<ceramics_vars, process_vars, tools_vars>>
ChunksReadFails == ReadFails /\ UNCHANGED <<ceramics_vars, process_vars, tools_vars>>
ChunksResume == Resume /\ UNCHANGED <<ceramics_vars, process_vars, tools_vars>>

NextChunks == ChunksReadRow \/ ChunksEndOfFile \/ ChunksReadFails \/ ChunksResume

SpecChunks == InitChunks /\ [][NextChunks]_vars

RECURSIVE Flatten(_)
\* The rows of the batches, end to end.
Flatten(bs) == IF bs = <<>> THEN <<>> ELSE Head(bs).rows \o Flatten(Tail(bs))

\* C7: once the generator is exhausted on a readable file, the batches put
\* end to end in yield order are the file's rows (each with '' read as
\* None) in file order: no row is dropped, repeated or moved.
C7_BatchesPartitionRows ==
    (file_readable /\ gen_pc = "done")
        => Flatten(batches) = [i \in 1..Len(file_rows) |-> CleanRow(file_rows[i])]

\* Three rows went out as a full batch and a remainder.
C7_Witness ==
    /\ file_readable
    /\ gen_pc = "done"
    /\ Len(file_rows) = 3
    /\ Len(batches) = 2
    /\ file_rows[1] # file_rows[2]

\* C8: for a readable file and max_chunk_size = k >= 1, every batch but the
\* last has exactly k rows, the last has between 1 and k, none is empty.
C8_BatchesFixedSize ==
    (file_readable /\ max_chunk_size >= 1)
        => \A i \in 1..Len(batches) :
              /\ Len(batches[i].rows) >= 1
              /\ Len(batches[i].rows) <= max_chunk_size
              /\ (i < Len(batches) => Len(batches[i].rows) = max_chunk_size)

\* k = 2 and three rows: a batch of two, then a last batch of one.
C8_Witness ==
    /\ file_readable
    /\ gen_pc = "done"
    /\ max_chunk_size = 2
    /\ Len(batches) = 2
    /\ Len(batches[1].rows) = 2
    /\ Len(batches[2].rows) = 1

(***************************************************************************)
(* SpecProcess: process_large_file on a CSV file                           *)
(***************************************************************************)
InitProcess ==
    /\ ceramics_Init
    /\ tools_Idle
    /\ reader_Init
    /\ analysis_type \in {"summary", "trend"}
    /\ total_rows = 0
    /\ chunk_count = 0
    /\ chunk_results = <<>>
    /\ final_result = <<>>
    /\ proc_pc = "iter"

ProcReadRow == proc_pc = "iter" /\ ReadRow /\ UNCHANGED <<ceramics_vars, process_vars, tools_vars>>
ProcEndOfFile == proc_pc = "iter" /\ EndOfFile /\ UNCHANGED <<ceramics_vars, process_vars, tools_vars>>
ProcReadFails == proc_pc = "iter" /\ ReadFails /\ UNCHANGED <<ceramics_vars, process_vars, tools_vars>>
ProcChunk == ProcessChunk /\ UNCHANGED <<ceramics_vars, tools_vars>>
ProcFinish == (\E getsize_ok \in BOOLEAN : FinishProcess(getsize_ok)) /\ UNCHANGED <<ceramics_vars, tools_vars>>

NextProcess == ProcReadRow \/ ProcEndOfFile \/ ProcReadFails \/ ProcChunk \/ ProcFinish

SpecProcess == InitProcess /\ [][NextProcess]_vars

\* ceil(n / k) for k >= 1
CeilDiv(n, k) == (n + k - 1) \div k

\* C9 (as claimed): for a readable CSV file with N >= 1 data rows and a
\* batch size k >= 1, process_large_file(path, "summary") returns a result
\* with no "error" key, total_rows_processed = N, total_chunks_processed =
\* ceil(N / k) and the merged total_rows = N.
C9_SummaryOfCsv ==
    (/\ proc_pc = "done"
     /\ analysis_type = "summary"
     /\ file_readable
     /\ max_chunk_size >= 1
     /\ Len(file_rows) >= 1)
        => /\ "error" \notin DOMAIN final_result
           /\ final_result.total_rows_processed = Len(file_rows)
           /\ final_result.total_chunks_processed = CeilDiv(Len(file_rows), max_chunk_size)
           /\ final_result.total_rows = Len(file_rows)

(***************************************************************************)
(* SpecMerge: merge_chunk_results over per-batch summaries of DataFrames   *)
(***************************************************************************)
\* The rows of a DataFrame with the given columns: each cell a value or NaN.
FrameRows(columns) == [Range(columns) -> {Some("1"), None}]

DataFrames ==
    UNION {{DataFrameOf(columns, rows) : rows \in SeqsUpTo(FrameRows(columns), MaxDfRows)} :
              columns \in {<<"a">>, <<"a", "b">>, <<"b">>}}

InitMerge == ceramics_Init /\ analyzer_Idle /\ tools_Idle

\* One more per-batch summary joins the list handed to the merge.
MergeAppend ==
    /\ proc_pc = "idle"
    /\ Len(chunk_results) < MaxResults
    /\ \E df \in DataFrames :
          chunk_results' = Append(chunk_results, analyze_csv_chunk(df, "summary"))
    /\ UNCHANGED <<tools_vars, ceramics_vars, reader_vars, analysis_type, total_rows, chunk_count,
                   final_result, proc_pc>>

\* merger.merge_chunk_results(chunk_results, analysis_type)
MergeCall ==
    /\ proc_pc = "idle"
    /\ final_result' = merge_chunk_results(chunk_results, analysis_type)
    /\ proc_pc' = "merged"
    /\ UNCHANGED <<tools_vars, ceramics_vars, reader_vars, analysis_type, total_rows, chunk_count,
                   chunk_results>>

NextMerge == MergeAppend \/ MergeCall

SpecMerge == InitMerge /\ [][NextMerge]_vars

\* One mark <<i, j>> for each j in 1..n[i].
Marks(n) == UNION {{<<i, j>> : j \in 1..n[i]} : i \in DOMAIN n}

\* C10: merging a non-empty list of per-batch summaries, total_rows is the
\* sum of the batches' shape.rows, and for every column of the first batch
\* missing_values_total[column] is the sum of that column's missing_values
\* over all batches, a batch without the column counting 0.
C10_MergeSummary ==
    (proc_pc = "merged" /\ chunk_results # <<>>)
        => /\ final_result.total_rows
                = Cardinality(Marks([i \in DOMAIN chunk_results |->
                                        chunk_results[i].shape.rows]))
           /\ DOMAIN final_result.missing_values_total
                = DOMAIN chunk_results[1].missing_values
           /\ \A col \in DOMAIN chunk_results[1].missing_values :
                 final_result.missing_values_total[col]
                    = Cardinality(Marks([i \in DOMAIN chunk_results |->
                         IF col \in DOMAIN chunk_results[i].missing_values
                         THEN chunk_results[i].missing_values[col]
                         ELSE 0]))

\* Two batches were merged, the second lacks a column of the first, and a
\* value is missing in each.
C10_Witness ==
    /\ proc_pc = "merged"
    /\ Len(chunk_results) = 2
    /\ chunk_results[1].columns = <<"a", "b">>
    /\ chunk_results[2].columns = <<"a">>
    /\ chunk_results[1].missing_values["a"] = 1
    /\ chunk_results[2].missing_values["a"] = 1
    /\ final_result.missing_values_total["a"] = 2
    /\ final_result.total_rows = 2

(***************************************************************************)
(* skills/sharepoint/scripts/sharepoint.py                                 *)
(* A command's outcome: the lines it printed, each a pair of a fixed text   *)
(* and a detail, the exception that left it (raised) and the error it met, *)
(* caught or not (failed).                                                 *)
(***************************************************************************)
Credentials == {"SHAREPOINT_TENANT_ID", "SHAREPOINT_CLIENT_ID", "SHAREPOINT_CLIENT_SECRET"}

\* What the outside world answers during one run.
Worlds ==
    [auth_ok : BOOLEAN, status : {200, 201, 403, 404}, has_url : BOOLEAN,
     file_exists : BOOLEAN, small : BOOLEAN]

\* get_token: the token, or the ValueError it raises.  all([...]) is false
\* for a variable that is unset (None) or set to the empty string.
get_token(env, w) ==
    IF \E c \in Credentials : IsNone(env[c]) \/ Val(env[c]) = ""
    THEN Raised("Missing SHAREPOINT_* credentials")
    ELSE IF w.auth_ok THEN [access_token |-> "token"]
    ELSE Raised("Auth failed")

\* graph_get: the JSON of a 200 answer, or the ValueError it raises.
graph_get(token, w) ==
    IF w.status = 200 THEN [value |-> "json"]
    ELSE Raised(<<"Graph API error ", w.status>>)

\* graph_put: the JSON of a 200 or 201 answer, or the ValueError it raises.
graph_put(token, w) ==
    IF w.status \in {200, 201} THEN [value |-> "json"]
    ELSE Raised(<<"Graph API error ", w.status>>)

Returned(printed) == [printed |-> printed, raised |-> None, failed |-> None]
Threw(r) == [printed |-> <<>>, raised |-> Some(r.raised), failed |-> Some(r.raised)]

\* cmd_auth catches the exception itself and prints it.
cmd_auth(env, w) ==
    LET token == get_token(env, w)
        me == graph_get(token, w)
    IN  IF IsRaised(token)
        THEN [printed |-> <<<<"Authentication failed: ", token.raised>>>>,
              raised |-> None, failed |-> Some(token.raised)]
        ELSE IF IsRaised(me)
        THEN [printed |-> <<<<"Authentication successful!", "">>,
                            <<"Authentication failed: ", me.raised>>>>,
              raised |-> None, failed |-> Some(me.raised)]
        ELSE Returned(<<<<"Authentication successful!", "">>, <<"Tenant: ", "name">>>>)

\* cmd_sites, cmd_drives and cmd_list: a token, one graph_get, a table.
cmd_sites(env, w) ==
    LET token == get_token(env, w)
        result == graph_get(token, w)
    IN  IF IsRaised(token) THEN Threw(token)
        ELSE IF IsRaised(result) THEN Threw(result)
        ELSE Returned(<<<<"table", "">>>>)

cmd_drives(env, w) == cmd_sites(env, w)

cmd_list(env, w) == cmd_sites(env, w)

\* cmd_search posts by itself and prints a failure without raising.
cmd_search(env, w) ==
    LET token == get_token(env, w)
    IN  IF IsRaised(token) THEN Threw(token)
        ELSE IF w.status # 200
        THEN [printed |-> <<<<"Search failed: ", "response">>>>, raised |-> None,
              failed |-> Some("response")]
        ELSE Returned(<<<<"table", "">>, <<"Found results", "">>>>)

cmd_download(env, w) ==
    LET token == get_token(env, w)
        item == graph_get(token, w)
    IN  IF IsRaised(token) THEN Threw(token)
        ELSE IF IsRaised(item) THEN Threw(item)
        ELSE IF ~w.has_url
        THEN [printed |-> <<<<"", "No download URL available">>>>, raised |-> None,
              failed |-> Some("No download URL available")]
        ELSE Returned(<<<<"Downloading", "">>, <<"Saved to ", "file">>>>)

cmd_upload(env, w) ==
    LET token == get_token(env, w)
        result == graph_put(token, w)
    IN  IF IsRaised(token) THEN Threw(token)
        ELSE IF ~w.file_exists
        THEN [printed |-> <<<<"File not found: ", "path">>>>, raised |-> None,
              failed |-> Some("path")]
        ELSE IF ~w.small
        THEN Returned(<<<<"Uploading", "">>, <<"Large file upload (>4MB) not yet implemented", "">>>>)
        ELSE IF IsRaised(result)
        THEN [printed |-> <<<<"Uploading", "">>>>, raised |-> Some(result.raised),
              failed |-> Some(result.raised)]
        ELSE Returned(<<<<"Uploading", "">>, <<"Uploaded to ", "url">>>>)

\* The dict `commands` of main.
commands(command, env, w) ==
    CASE command = "auth"     -> cmd_auth(env, w)
      [] command = "sites"    -> cmd_sites(env, w)
      [] command = "drives"   -> cmd_drives(env, w)
      [] command = "list"     -> cmd_list(env, w)
      [] command = "search"   -> cmd_search(env, w)
      [] command = "download" -> cmd_download(env, w)
      [] command = "upload"   -> cmd_upload(env, w)

\* main: without a command it prints the help; otherwise it runs the
\* command inside try/except Exception, prints "Error: ..." for an
\* exception and returns.  Nothing calls sys.exit, so the interpreter
\* ends with exit code 0 either way.
sharepoint_main(command, w) ==
    /\ IF command = ""
       THEN /\ sp_printed' = <<<<"usage", "">>>>
            /\ sp_error' = None
       ELSE LET out == commands(command, sp_env, w)
            IN  /\ sp_printed' =
                      IF IsNone(out.raised) THEN out.printed
                      ELSE Append(out.printed, <<"Error: ", Val(out.raised)>>)
                /\ sp_error' = out.failed
    /\ sp_exit' = Some(0)
    /\ UNCHANGED sp_env

sharepoint_Init ==
    /\ sp_env \in [Credentials -> {None, Some(""), Some("set")}]
    /\ sp_printed = <<>>
    /\ sp_error = None
    /\ sp_exit = None

(***************************************************************************)
(* SpecSharePoint: runs of the SharePoint CLI under every environment      *)
(***************************************************************************)
InitSharePoint ==
    ceramics_Init /\ analyzer_Idle /\ sharepoint_Init /\ sanitizer_Idle /\ wrapper_Idle
        /\ chat_Idle /\ para_Idle

SharePointRun ==
    /\ \E command \in {"", "auth", "sites", "drives", "list", "search", "download",
                       "upload"}, w \in Worlds :
           sharepoint_main(command, w)
    /\ UNCHANGED <<ceramics_vars, reader_vars, process_vars, sanitizer_vars, wrapper_vars,
                 chat_vars, para_vars>>

NextSharePoint == SharePointRun

SpecSharePoint == InitSharePoint /\ [][NextSharePoint]_vars

\* C11 (as claimed): when the selected command met an error (missing
\* SHAREPOINT_* credentials, failed authentication, a Graph API error
\* status), the error is printed and the process exits with a non-zero code.
C11_ErrorExitsNonZero ==
    (~IsNone(sp_exit) /\ ~IsNone(sp_error))
        => /\ \E i \in 1..Len(sp_printed) : sp_printed[i][2] = Val(sp_error)
           /\ Val(sp_exit) # 0

(***************************************************************************)
(* SpecCmds: one piece under every command of ceramics.py that takes a     *)
(* piece id                                                                *)
(***************************************************************************)
CmdAdd ==
    /\ cmd_add(AddInput(NameMug, "10", <<>>, <<>>))
    /\ UNCHANGED <<reader_vars, process_vars, tools_vars>>
CmdShow ==
    /\ \E id \in IdArgs : cmd_show(id)
    /\ UNCHANGED <<reader_vars, process_vars, tools_vars>>
CmdUpdate ==
    /\ \E id \in IdArgs, st \in {None, Some("archived")}, o \in {NoOpts, AllOpts} :
           cmd_update(id, [status |-> st] @@ o)
    /\ UNCHANGED <<reader_vars, process_vars, tools_vars>>

NextCmds == CmdAdd \/ CmdShow \/ CmdUpdate \/ RefPost \/ RefPhoto \/ RefSale

SpecCmds == Init /\ [][NextCmds]_vars

\* C12: update, show, post, photo and sale, given an id that is no piece's,
\* each print the not-found message and return 1, and no row of pieces,
\* photos, sales or social_posts is inserted, updated or deleted.
C12_NotFoundRejected ==
    [][(/\ ret'.cmd \in {"update", "show", "post", "photo", "sale"}
        /\ ret'.id \notin DOMAIN pieces)
       => (/\ ret'.msg = "Piece not found"
           /\ ret'.code = 1
           /\ UNCHANGED <<pieces, photos, sales, social_posts>>)]_vars

\* `show` of an id that is no piece's was turned away while every table
\* holds rows.
C12_Witness ==
    /\ ret.cmd = "show"
    /\ ret.id \notin DOMAIN pieces
    /\ ret.code = 1
    /\ ret.msg = "Piece not found"
    /\ DOMAIN pieces # {}
    /\ photos # <<>>
    /\ sales # <<>>
    /\ social_posts # <<>>

(***************************************************************************)
(* skills/newsletter-digest/scripts/parse-html.py: HTMLSanitizer           *)
(* A string is a sequence of one-character strings.  HTMLParser hands the  *)
(* tag names over in lower case, so tag.lower() leaves them as they are.   *)
(***************************************************************************)
MaxEvents == 5

skip_tags == {"script", "style", "iframe", "form", "noscript"}
block_tags == {"p", "div", "h1", "h2", "h3", "h4", "h5", "h6", "li", "blockquote"}

Newline == <<"\n">>
IsSpace(c) == c \in {" ", "\n"}

\* text_parts.append("\n") unless the list is empty or ends with "\n".
BreakLine(parts) ==
    IF parts # <<>> /\ parts[Len(parts)] # Newline THEN Append(parts, Newline) ELSE parts

handle_starttag(tag) ==
    IF tag \in skip_tags
    THEN skip_content' = TRUE /\ UNCHANGED text_parts
    ELSE IF tag = "br"
    THEN text_parts' = Append(text_parts, Newline) /\ UNCHANGED skip_content
    ELSE IF tag \in block_tags
    THEN text_parts' = BreakLine(text_parts) /\ UNCHANGED skip_content
    ELSE UNCHANGED <<text_parts, skip_content>>

handle_endtag(tag) ==
    IF tag \in skip_tags
    THEN skip_content' = FALSE /\ UNCHANGED text_parts
    ELSE IF tag \in block_tags
    THEN text_parts' = BreakLine(text_parts) /\ UNCHANGED skip_content
    ELSE UNCHANGED <<text_parts, skip_content>>

\* str.strip(): leading and trailing whitespace removed.
RECURSIVE Strip(_)
Strip(t) ==
    IF t = <<>> THEN <<>>
    ELSE IF IsSpace(Head(t)) THEN Strip(Tail(t))
    ELSE IF IsSpace(t[Len(t)]) THEN Strip(SubSeq(t, 1, Len(t) - 1))
    ELSE t

handle_data(data) ==
    /\ text_parts' =
          IF ~skip_content /\ Strip(data) # <<>>
          THEN text_parts \o <<Strip(data), <<" ">>>>
          ELSE text_parts
    /\ UNCHANGED skip_content

\* "".join(self.text_parts)
RECURSIVE Join(_)
Join(parts) == IF parts = <<>> THEN <<>> ELSE Head(parts) \o Join(Tail(parts))

\* re.sub(r" +", " ", text)
RECURSIVE SubSpaces(_)
SubSpaces(t) ==
    IF Len(t) < 2 THEN t
    ELSE IF t[1] = " " /\ t[2] = " " THEN SubSpaces(Tail(t))
    ELSE <<Head(t)>> \o SubSpaces(Tail(t))

\* re.sub(r"\n\s*\n+", "\n", text): from a newline, the longest run of
\* whitespace that ends in a newline shrinks to one newline.
RECURSIVE SubNewlines(_)
SubNewlines(t) ==
    IF t = <<>> THEN <<>>
    ELSE IF Head(t) # "\n" THEN <<Head(t)>> \o SubNewlines(Tail(t))
    ELSE LET ws == CHOOSE n \in 1..Len(t) :
                       /\ \A i \in 1..n : IsSpace(t[i])
                       /\ (n < Len(t) => ~IsSpace(t[n + 1]))
             last == CHOOSE k \in 1..ws :
                       /\ t[k] = "\n"
                       /\ \A i \in (k + 1)..ws : t[i] # "\n"
         IN  Newline \o SubNewlines(SubSeq(t, last + 1, Len(t)))

get_text(parts) == Strip(SubNewlines(SubSpaces(Join(parts))))

\* One callback of HTMLParser.feed, for the next event of the document.
Feed ==
    /\ ev_pos < Len(html_events)
    /\ IsNone(clean_text)
    /\ LET e == html_events[ev_pos + 1]
       IN  CASE e.kind = "start" -> handle_starttag(e.tag)
             [] e.kind = "end"   -> handle_endtag(e.tag)
             [] e.kind = "data"  -> handle_data(e.data)
    /\ ev_pos' = ev_pos + 1
    /\ UNCHANGED <<html_events, clean_text>>

\* sanitize_html: after feed, return parser.get_text()
GetText ==
    /\ ev_pos = Len(html_events)
    /\ IsNone(clean_text)
    /\ clean_text' = Some(get_text(text_parts))
    /\ UNCHANGED <<html_events, ev_pos, text_parts, skip_content>>

StartTag(tag) == [kind |-> "start", tag |-> tag]
EndTag(tag) == [kind |-> "end", tag |-> tag]
Data(data) == [kind |-> "data", data |-> data]

Events ==
    {StartTag(t) : t \in {"form", "noscript", "p", "br"}}
        \cup {EndTag(t) : t \in {"form", "noscript", "p"}}
        \cup {Data(d) : d \in {<<"v">>, <<" ", "s", " ">>, <<" ">>}}

\* HTMLSanitizer(): a new parser and a document to feed it.
sanitizer_Init ==
    /\ html_events \in SeqsUpTo(Events, MaxEvents)
    /\ ev_pos = 0
    /\ text_parts = <<>>
    /\ skip_content = FALSE
    /\ clean_text = None

(***************************************************************************)
(* SpecSanitizer: sanitize_html over every short document                  *)
(***************************************************************************)
InitSanitizer ==
    ceramics_Init /\ analyzer_Idle /\ sharepoint_Idle /\ sanitizer_Init /\ wrapper_Idle
        /\ chat_Idle /\ para_Idle

SanitizerFeed ==
    Feed /\ UNCHANGED <<ceramics_vars, reader_vars, process_vars, sharepoint_vars, wrapper_vars,
                 chat_vars, para_vars>>
SanitizerGetText ==
    GetText /\ UNCHANGED <<ceramics_vars, reader_vars, process_vars, sharepoint_vars, wrapper_vars,
                 chat_vars, para_vars>>

NextSanitizer == SanitizerFeed \/ SanitizerGetText

SpecSanitizer == InitSanitizer /\ [][NextSanitizer]_vars

\* The number of events of evs at positions lo..hi that are the given one.
CountEv(evs, lo, hi, e) == Cardinality({i \in lo..hi : evs[i] = e})

\* The event at position i lies between the start tag of a skip element and
\* that start tag's matching end tag.
InsideSkipElement(evs, i) ==
    \E a \in 1..(i - 1), b \in (i + 1)..Len(evs), t \in skip_tags :
        /\ evs[a] = StartTag(t)
        /\ evs[b] = EndTag(t)
        /\ CountEv(evs, a + 1, b - 1, StartTag(t)) = CountEv(evs, a + 1, b - 1, EndTag(t))
        /\ \A c \in (a + 1)..(b - 1) :
              evs[c] = EndTag(t)
                  => CountEv(evs, a + 1, c - 1, StartTag(t))
                        >= CountEv(evs, a + 1, c, EndTag(t))

\* C13 (as claimed): no text that lies between the start tag and the
\* matching end tag of a script, style, iframe, form or noscript element
\* appears in get_text(): when every text holding the letter s lies inside
\* such an element, get_text() holds no s.
C13_SkippedTextRemoved ==
    (/\ ~IsNone(clean_text)
     /\ \A i \in 1..Len(html_events) :
           (html_events[i].kind = "data" /\ "s" \in Range(html_events[i].data))
               => InsideSkipElement(html_events, i))
        => "s" \notin Range(Val(clean_text))

(***************************************************************************)
(* personal-scripts/vikunja-sync-twenty.py                                 *)
(* The child's output is a sequence of fragments: an ANSI escape, a        *)
(* space, a newline, or a piece of text.                                   *)
(***************************************************************************)
MaxOut == 3

Esc == "ESC[0m"
NoEngagements == "No engagements found in Twenty CRM."

Fragments ==
    {Esc, " ", NoEngagements, "Created 0 new projects", "Created 00 new projects",
     "Created 2 new projects", "Synced 2 engagements"}

\* Mutant of RemoveAnsi: the escapes are left in.
RemoveAnsi_kept(output) == output

\* re.sub(r"\x1B\[[0-9;]*[A-Za-z]", "", output)
RemoveAnsi(output) == SelectSeq(output, LAMBDA f : f # Esc)

\* re.findall(r"Created (\d+) new projects", stripped), each match through int()
Matches(stripped) ==
    LET n(f) == CASE f = "Created 0 new projects" -> <<0>>
                  [] f = "Created 00 new projects" -> <<0>>
                  [] f = "Created 2 new projects" -> <<2>>
                  [] OTHER -> <<>>
        RECURSIVE all(_)
        all(t) == IF t = <<>> THEN <<>> ELSE n(Head(t)) \o all(Tail(t))
    IN  all(stripped)

\* main, after subprocess.run has returned
vikunja_main ==
    LET output == child.stdout \o child.stderr
        stripped == Strip(RemoveAnsi(output))
        matches == Matches(stripped)
    IN  /\ IsNone(wr_exit)
        /\ IF child.returncode # 0
           THEN /\ wr_stderr' = Append(Strip(output), "\n")
                /\ wr_exit' = Some(child.returncode)
                /\ UNCHANGED wr_stdout
           ELSE /\ wr_stdout' =
                      IF stripped = <<>> THEN wr_stdout
                      ELSE IF NoEngagements \in Range(stripped) THEN wr_stdout
                      ELSE IF matches # <<>> /\ matches[Len(matches)] = 0 THEN wr_stdout
                      ELSE Append(stripped, "\n")
                /\ wr_exit' = Some(0)
                /\ UNCHANGED wr_stderr
        /\ UNCHANGED child

\* subprocess.run(...) has returned with some exit code and output.
wrapper_Init ==
    /\ child \in [returncode : {0, 1, 2}, stdout : SeqsUpTo(Fragments, MaxOut),
                  stderr : {<<>>, <<"Created 0 new projects">>, <<"warning">>}]
    /\ wr_stdout = <<>>
    /\ wr_stderr = <<>>
    /\ wr_exit = None

(***************************************************************************)
(* SpecWrapper: the wrapper after every short child output                 *)
(***************************************************************************)
InitWrapper ==
    ceramics_Init /\ analyzer_Idle /\ sharepoint_Idle /\ sanitizer_Idle /\ wrapper_Init
        /\ chat_Idle /\ para_Idle

WrapperMain ==
    vikunja_main
        /\ UNCHANGED <<ceramics_vars, reader_vars, process_vars, sharepoint_vars, sanitizer_vars,
                 chat_vars, para_vars>>

NextWrapper == WrapperMain

SpecWrapper == InitWrapper /\ [][NextWrapper]_vars

\* C15: when the child exits non-zero its output goes to stderr and its
\* exit code is returned; when it exits 0 the wrapper returns 0 and writes
\* the output to stdout only if, after removing ANSI escapes and
\* surrounding whitespace, it is non-empty, does not contain "No
\* engagements found in Twenty CRM.", and its last "Created N new projects"
\* line does not have N = 0.
C15_NoOpSuppressed ==
    ~IsNone(wr_exit) =>
        LET out == child.stdout \o child.stderr
            text == {i \in 1..Len(out) : out[i] \notin {Esc, " ", "\n"}}
            created == {i \in 1..Len(out) :
                           out[i] \in {"Created 0 new projects", "Created 00 new projects",
                                       "Created 2 new projects"}}
            last == CHOOSE i \in created : \A j \in created : j <= i
            shown == /\ text # {}
                     /\ \A i \in 1..Len(out) : out[i] # NoEngagements
                     /\ (created # {} => out[last] = "Created 2 new projects")
        IN  IF child.returncode # 0
            THEN /\ Val(wr_exit) = child.returncode
                 /\ wr_stdout = <<>>
                 /\ \A i \in text : out[i] \in Range(wr_stderr)
            ELSE /\ Val(wr_exit) = 0
                 /\ wr_stderr = <<>>
                 /\ (wr_stdout # <<>>) = shown
                 /\ shown => /\ \A i \in text : out[i] \in Range(wr_stdout)
                             /\ Esc \notin Range(wr_stdout)

\* An output of an escape, a creation report and a space was written out
\* without the escape and the space.
C15_Witness ==
    /\ wr_exit = Some(0)
    /\ child.stdout = <<Esc, "Created 2 new projects", " ">>
    /\ child.stderr = <<>>
    /\ wr_stdout = <<"Created 2 new projects", "\n">>

(***************************************************************************)
(* SpecUpdate: two pieces under add and update                             *)
(***************************************************************************)
\* --name "" --glaze "" --price 0 --series ""
BlankOpts ==
    [name |-> Some(<<>>), glaze |-> Some(""), price |-> Some(0), cost |-> None,
     series |-> Some(""), dimensions |-> None, notes |-> None]

FrameArgs ==
    {[status |-> st] @@ o :
        st \in {None, Some("ready-for-sale"), Some("listed")},
        o \in {NoOpts, AllOpts, BlankOpts}}

UpdAdd ==
    /\ \E n \in {NameMug, NameCup} : cmd_add(AddInput(n, "10", <<>>, <<>>))
    /\ UNCHANGED <<reader_vars, process_vars, tools_vars>>
UpdUpdate ==
    /\ \E id \in IdArgs, args \in FrameArgs : cmd_update(id, args)
    /\ UNCHANGED <<reader_vars, process_vars, tools_vars>>

NextUpdate == UpdAdd \/ UpdUpdate

SpecUpdate == Init /\ [][NextUpdate]_vars

\* The value an option of the command line stands for in its column.
Supplied(col, args) ==
    IF col = "status" THEN Val(args.status)
    ELSE IF col \in {"name", "glaze", "dimensions"} THEN Val(args[col])
    ELSE args[col]

\* The date column tied to the status change the command asks for, if any.
DateOfChange(old_status, args) ==
    IF IsNone(args.status) \/ Val(args.status) = old_status THEN "none"
    ELSE CASE Val(args.status) = "ready-for-sale" -> "completed_date"
           [] Val(args.status) = "listed" -> "listed_date"
           [] Val(args.status) = "sold" -> "sold_date"
           [] OTHER -> "none"

\* The step changed, on piece id, the columns named to the values supplied
\* and the date column of the status change to the clock, and nothing else
\* in the table.
OnlyNamedChanged(id, args, named) ==
    /\ DOMAIN pieces' = DOMAIN pieces
    /\ \A other \in DOMAIN pieces \ {id} : pieces'[other] = pieces[other]
    /\ \A col \in DOMAIN pieces[id] :
          pieces'[id][col] =
              IF col \in named THEN Supplied(col, args)
              ELSE IF col = DateOfChange(pieces[id].status, args) THEN Some(now)
              ELSE pieces[id][col]
    /\ (named = {} => (pieces' = pieces /\ ret'.code = 0))

\* The options of the command line that were supplied.
OptionsSupplied(args) ==
    GivenOpts(args) \cup (IF IsNone(args.status) THEN {} ELSE {"status"})

\* C18 (as claimed): a successful update changes exactly the columns named
\* by the options supplied, plus the one date column tied to a status
\* change, on the addressed piece only; an update with no options changes
\* nothing and returns 0.
C18_UpdateChangesNamedColumns ==
    [][\A id \in DOMAIN pieces, args \in FrameArgs :
          (cmd_update(id, args) /\ ret'.code = 0)
              => OnlyNamedChanged(id, args, OptionsSupplied(args))]_vars

\* C18 (amended): the same, an empty --name or --glaze counting as not
\* supplied.
C18_UpdateChangesNamedColumnsAmended ==
    [][\A id \in DOMAIN pieces, args \in FrameArgs :
          (cmd_update(id, args) /\ ret'.code = 0)
              => OnlyNamedChanged(id, args,
                     OptionsSupplied(args)
                         \ ((IF args.name = Some(<<>>) THEN {"name"} ELSE {})
                            \cup (IF args.glaze = Some("") THEN {"glaze"} ELSE {})))]_vars

\* Of two pieces, one took every option and a status change with its date,
\* the other is as `add` left it.
C18_Witness ==
    /\ ret.cmd = "update"
    /\ ret.code = 0
    /\ ret.opts = UpdateFields
    /\ ret.status = Some("ready-for-sale")
    /\ ret.id \in DOMAIN pieces
    /\ pieces[ret.id].glaze = "shino"
    /\ pieces[ret.id].status = "ready-for-sale"
    /\ pieces[ret.id].completed_date = Some(now)
    /\ \E other \in DOMAIN pieces \ {ret.id} :
          /\ pieces[other].glaze = "celadon"
          /\ pieces[other].status = "in-progress"
          /\ pieces[other].price = Some(10)

(***************************************************************************)
(* SpecDates: one piece under add, update and sale while the clock runs    *)
(***************************************************************************)
MaxClock == 2

\* datetime.now() moves on between two commands.
Tick ==
    /\ now < MaxClock
    /\ now' = now + 1
    /\ UNCHANGED <<pieces, photos, sales, social_posts, ret>>
    /\ UNCHANGED <<reader_vars, process_vars, tools_vars>>

DatesAdd ==
    /\ DOMAIN pieces = {}
    /\ cmd_add(AddInput(NameMug, "", <<>>, <<>>))
    /\ UNCHANGED <<reader_vars, process_vars, tools_vars>>
DatesUpdate ==
    /\ \E id \in IdArgs, st \in OptStatus : cmd_update(id, [status |-> st] @@ NoOpts)
    /\ UNCHANGED <<reader_vars, process_vars, tools_vars>>
DatesSale ==
    /\ \E id \in IdArgs, strict \in BOOLEAN :
           cmd_sale(id, SaleArg(None, "", Some("etsy"), ""), strict)
    /\ UNCHANGED <<reader_vars, process_vars, tools_vars>>

NextDates == Tick \/ DatesAdd \/ DatesUpdate \/ DatesSale

SpecDates == Init /\ [][NextDates]_vars

\* C19: after every add, update and sale from an empty database, a piece
\* with status ready-for-sale has completed_date set, one with status
\* listed has listed_date set and one with status sold has sold_date set;
\* an update to the status the piece already has leaves its dates as they
\* were.
C19_StatusHasItsDate ==
    [][/\ \A id \in DOMAIN pieces' :
             /\ pieces'[id].status = "ready-for-sale" => ~IsNone(pieces'[id].completed_date)
             /\ pieces'[id].status = "listed" => ~IsNone(pieces'[id].listed_date)
             /\ pieces'[id].status = "sold" => ~IsNone(pieces'[id].sold_date)
       /\ (IsStatusUpdate /\ ret'.status = Some(pieces[ret'.id].status))
             => /\ ret'.code = 0
                /\ pieces'[ret'.id].completed_date = pieces[ret'.id].completed_date
                /\ pieces'[ret'.id].listed_date = pieces[ret'.id].listed_date
                /\ pieces'[ret'.id].sold_date = pieces[ret'.id].sold_date]_vars

\* A piece sold through `sale` at one time was sent `update --status sold`
\* at a later time and kept its sold_date.
C19_Witness ==
    /\ ret.cmd = "update"
    /\ ret.code = 0
    /\ ret.status = Some("sold")
    /\ ret.id \in DOMAIN pieces
    /\ pieces[ret.id].status = "sold"
    /\ ~IsNone(pieces[ret.id].sold_date)
    /\ Val(pieces[ret.id].sold_date) < ret.at
    /\ sales # <<>>

(***************************************************************************)
(* skills/ollama-persona/scripts/chat.py: chat().  A message is a record   *)
(* (role, content); texts are sequences of one-character strings.  One     *)
(* action is one turn of the while loop, from the prompt for user input    *)
(* to the next prompt or to the end of the loop.                           *)
(***************************************************************************)
MaxHistory == 4

PromptWindow == 10

Text(str) ==
    CASE str = "quit" -> <<"q", "u", "i", "t">>
      [] str = "clear" -> <<"c", "l", "e", "a", "r">>
      [] str = "hi" -> <<"h", "i">>
      [] str = "yo" -> <<"y", "o">>
      [] str = "ok" -> <<"o", "k">>

\* What input() returns: a line, or EOFError / KeyboardInterrupt (None).
UserInputs ==
    { None, Some(<<>>), Some(<<" ">>), Some(Text("quit")), Some(<<"Q">> \o Tail(Text("quit")) \o <<" ">>),
      Some(<<" ">> \o Text("clear")), Some(Text("hi")), Some(Text("yo") \o <<" ">>) }

\* What the request to /api/generate does: it raises an Exception, it is
\* interrupted from the keyboard, or it answers with a JSON object whose
\* key "response" is missing (None) or holds a text.
Outcomes ==
    { [kind |-> "error", response |-> None], [kind |-> "interrupt", response |-> None],
      [kind |-> "result", response |-> None], [kind |-> "result", response |-> Some(<<>>)],
      [kind |-> "result", response |-> Some(<<" ">>)],
      [kind |-> "result", response |-> Some(Text("ok") \o <<"\n">>)] }

Message(role, content) == [role |-> role, content |-> content]

\* history[-10:] formatted as "User: ..." / "Assistant: ..." lines, then "Assistant:".
BuildPrompt(h) ==
    LET last == IF Len(h) <= PromptWindow THEN h ELSE SubSeq(h, Len(h) - PromptWindow + 1, Len(h))
    IN  [i \in 1..Len(last) |->
            <<IF last[i].role = "user" THEN "User" ELSE "Assistant", last[i].content>>]
        \o <<<<"Assistant", <<>>>>>>

\* result.get("response", "").strip()
ResponseOf(outcome) == Strip(IF outcome.response = None THEN <<>> ELSE outcome.response[1])

\* One turn of the loop of chat(): lines 20-74.
chat(input, outcome) ==
    /\ chat_pc = "input"
    /\ IF input = None
       THEN /\ chat_printed' = <<<<"Goodbye", <<>>>>>>
            /\ chat_pc' = "exited"
            /\ UNCHANGED <<history, chat_prompt>>
       ELSE LET user_input == Strip(input[1])
                asked == Append(history, Message("user", user_input))
                response == ResponseOf(outcome)
            IN  IF user_input = <<>>
                THEN chat_printed' = <<>> /\ UNCHANGED <<history, chat_pc, chat_prompt>>
                ELSE IF Lower(user_input) = Text("quit")
                THEN /\ chat_printed' = <<<<"Goodbye", <<>>>>>>
                     /\ chat_pc' = "exited"
                     /\ UNCHANGED <<history, chat_prompt>>
                ELSE IF Lower(user_input) = Text("clear")
                THEN /\ history' = <<>>
                     /\ chat_printed' = <<<<"History cleared", <<>>>>>>
                     /\ UNCHANGED <<chat_pc, chat_prompt>>
                ELSE /\ Len(history) < MaxHistory
                     /\ chat_prompt' = Some(BuildPrompt(asked))
                     /\ CASE outcome.kind = "error" ->
                               /\ history' = SubSeq(asked, 1, Len(asked) - 1)
                               /\ chat_printed' = <<<<"Error", <<>>>>>>
                               /\ UNCHANGED chat_pc
                          [] outcome.kind = "interrupt" ->
                               /\ history' = asked
                               /\ chat_printed' = <<>>
                               /\ chat_pc' = "exited"
                          [] outcome.kind = "result" /\ response # <<>> ->
                               /\ history' = Append(asked, Message("assistant", response))
                               /\ chat_printed' = <<<<"model", response>>>>
                               /\ UNCHANGED chat_pc
                          [] OTHER ->
                               /\ history' = asked
                               /\ chat_printed' = <<<<"(no response)", <<>>>>>>
                               /\ UNCHANGED chat_pc

(***************************************************************************)
(* SpecChat: the chat loop under every input and every model outcome       *)
(***************************************************************************)
ChatTurn ==
    /\ \E input \in UserInputs, outcome \in Outcomes : chat(input, outcome)
    /\ UNCHANGED <<ceramics_vars, reader_vars, process_vars, sharepoint_vars, sanitizer_vars,
                   wrapper_vars, para_vars>>

NextChat == ChatTurn

SpecChat == Init /\ [][NextChat]_vars

\* C21 (as claimed): at every prompt for user input, history is an
\* alternating sequence user, assistant, user, assistant, ... of even
\* length, so no two user messages are adjacent.
C21_HistoryAlternates ==
    chat_pc = "input" =>
        /\ Len(history) % 2 = 0
        /\ \A i \in 1..Len(history) :
               history[i].role = (IF i % 2 = 1 THEN "user" ELSE "assistant")

(***************************************************************************)
(* SpecProfile: merge_chunk_results over per-batch user profiles           *)
(***************************************************************************)
TierCells == {Some("gold"), Some("free"), None}
RevenueCells == {Some(1), Some(2), None}

\* The frames handed to analyze_csv_chunk: with a segment column, a metric
\* column, both, or a demographic and a segment column.
ProfileFrames ==
    {DataFrameOf(<<"tier">>, rows) :
        rows \in SeqsUpTo({[tier |-> t] : t \in TierCells}, MaxDfRows)}
    \cup {DataFrameOf(<<"revenue">>, rows) :
        rows \in SeqsUpTo({[revenue |-> r] : r \in RevenueCells}, MaxDfRows)}
    \cup {DataFrameOf(<<"tier", "revenue">>, rows) :
        rows \in SeqsUpTo({[tier |-> t, revenue |-> r] : t \in TierCells, r \in RevenueCells},
                          MaxDfRows)}
    \cup {DataFrameOf(<<"city", "tier">>, rows) :
        rows \in SeqsUpTo({[city |-> Some("x"), tier |-> t] : t \in TierCells}, MaxDfRows)}

InitProfile ==
    /\ ceramics_Init
    /\ tools_Idle
    /\ file_rows = <<>>
    /\ file_readable = TRUE
    /\ max_chunk_size = 1
    /\ analysis_type = "user_profile"
    /\ rd_pos = 0
    /\ chunk = <<>>
    /\ gen_pc = "done"
    /\ batches = <<>>
    /\ total_rows = 0
    /\ chunk_count = 0
    /\ chunk_results = <<>>
    /\ final_result = <<>>
    /\ proc_pc = "idle"

\* One more per-batch profile joins the list handed to the merge.
ProfileAppend ==
    /\ proc_pc = "idle"
    /\ Len(chunk_results) < MaxResults
    /\ \E df \in ProfileFrames :
          chunk_results' = Append(chunk_results, analyze_csv_chunk(df, analysis_type))
    /\ UNCHANGED <<tools_vars, ceramics_vars, reader_vars, analysis_type, total_rows, chunk_count,
                   final_result, proc_pc>>

\* merger.merge_chunk_results(chunk_results, analysis_type), which writes
\* into the results it was handed.
ProfileCall ==
    /\ proc_pc = "idle"
    /\ final_result' = merge_chunk_results(chunk_results, analysis_type)
    /\ chunk_results' = IF chunk_results = <<>> THEN chunk_results
                        ELSE MergedInPlace(chunk_results, final_result')
    /\ proc_pc' = "merged"
    /\ UNCHANGED <<tools_vars, ceramics_vars, reader_vars, analysis_type, total_rows,
                   chunk_count>>

NextProfile == ProfileAppend \/ ProfileCall

SpecProfile == InitProfile /\ [][NextProfile]_vars

\* The batches, as handed to the merge, that hold the column in a section.
BatchesWith(section, col) ==
    {i \in DOMAIN chunk_results : col \in DOMAIN chunk_results[i][section]}

\* C22: merging a non-empty list of per-batch user profiles, for every
\* segment column and every segment value the merged count is the sum of
\* that value's counts over the batches that contain the column (as they
\* were handed to the merge), and for every key-metric column the merged
\* total is the sum of the batches' totals.
C22_ProfileMerged ==
    [][(proc_pc = "idle" /\ proc_pc' = "merged" /\ chunk_results # <<>>)
          => /\ DOMAIN final_result'.segments
                  = {col \in segment_cols : BatchesWith("segments", col) # {}}
             /\ \A col \in DOMAIN final_result'.segments :
                   /\ DOMAIN final_result'.segments[col]
                        = UNION {DOMAIN chunk_results[i].segments[col] :
                                    i \in BatchesWith("segments", col)}
                   /\ \A v \in DOMAIN final_result'.segments[col] :
                         final_result'.segments[col][v]
                            = Cardinality(Marks([i \in BatchesWith("segments", col) |->
                                 Get(chunk_results[i].segments[col], v, 0)]))
             /\ DOMAIN final_result'.key_metrics
                  = {col \in metric_cols : BatchesWith("key_metrics", col) # {}}
             /\ \A col \in DOMAIN final_result'.key_metrics :
                   final_result'.key_metrics[col].total
                      = Cardinality(Marks([i \in BatchesWith("key_metrics", col) |->
                           chunk_results[i].key_metrics[col].total]))]_vars

\* Two batches were merged, each with a gold row and a revenue: the merged
\* gold count is 2 and the merged revenue total is 3, and the first batch's
\* own dicts now hold the merged numbers.
C22_Witness ==
    /\ proc_pc = "merged"
    /\ analysis_type = "user_profile"
    /\ Len(chunk_results) = 2
    /\ chunk_results[2].segments = [tier |-> [gold |-> 1]]
    /\ DOMAIN chunk_results[2].key_metrics = {"revenue"}
    /\ chunk_results[2].key_metrics.revenue.total = 2
    /\ chunk_results[1].segments = [tier |-> [gold |-> 2]]
    /\ final_result.segments.tier.gold = 2
    /\ final_result.key_metrics.revenue.total = 3

(***************************************************************************)
(* .cursor-server/data/User/History/2e6cd579/edf0.py: the PARA task        *)
(* manager.  tasks maps a task id (a uuid4 string, here a short sequence   *)
(* of one-character strings) to its row.  The table's schema is not part   *)
(* of the sources: the column status of a new row holds the schema's       *)
(* default, which is a text or NULL.                                       *)
(***************************************************************************)
MaxTasks == 2

TaskIds == {<<"a", "1">>, <<"a", "2">>, <<"b", "1">>}

SecondsPerDay == 86400

\* The due_date of add_task: None without --due; now + N days for "+Nd";
\* the timestamp of an ISO date; "invalid" where fromisoformat raises (the
\* error is printed and nothing is inserted); "raise" where int() raises on
\* the text after the "+" (the command ends with a traceback).
DueDate(due, clock) ==
    CASE due = None -> [kind |-> "ok", value |-> None]
      [] due = Some("+1d") -> [kind |-> "ok", value |-> Some(clock + 1 * SecondsPerDay)]
      [] due = Some("1970-01-02") -> [kind |-> "ok", value |-> Some(SecondsPerDay)]
      [] due = Some("soon") -> [kind |-> "invalid", value |-> None]
      [] due = Some("+d") -> [kind |-> "raise", value |-> None]

TaskRow(title, category, priority, due_date, status) ==
    [title |-> title, category |-> category, priority |-> priority, due_date |-> due_date,
     status |-> status, updated_at |-> None]

ParaOut(cmd, arg, printed) == [cmd |-> cmd, arg |-> arg, printed |-> printed]

\* add_task: lines 14-38.  task_id is a fresh uuid4; default_status is what
\* the schema gives the column status.
add_task(task_id, title, category, priority, due, default_status) ==
    LET due_date == DueDate(due, para_now)
    IN  /\ task_id \notin DOMAIN tasks
        /\ IF due_date.kind = "ok"
           THEN /\ tasks' = [id \in DOMAIN tasks \cup {task_id} |->
                                IF id = task_id
                                THEN TaskRow(title, category, priority, due_date.value,
                                             default_status)
                                ELSE tasks[id]]
                /\ para_out' = ParaOut("add", task_id, <<"Task added">>)
           ELSE /\ para_out' = ParaOut("add", task_id,
                                       IF due_date.kind = "invalid"
                                       THEN <<"Error: Invalid date format">>
                                       ELSE <<"ValueError">>)
                /\ UNCHANGED tasks
        /\ UNCHANGED para_now

\* The rows of the query of list_tasks: status != 'completed' AND status !=
\* 'cancelled' is not true of a NULL status.
Active(category) ==
    {id \in DOMAIN tasks :
        /\ ~IsNone(tasks[id].status)
        /\ Val(tasks[id].status) \notin {"completed", "cancelled"}
        /\ (category # None => tasks[id].category = Val(category))}

\* ORDER BY t.priority ASC, t.due_date ASC: NULL sorts first; rows equal in
\* both keys come in any order.
Before(a, b) ==
    IF tasks[a].priority # tasks[b].priority THEN tasks[a].priority < tasks[b].priority
    ELSE IF IsNone(tasks[a].due_date) THEN TRUE
    ELSE IF IsNone(tasks[b].due_date) THEN FALSE
    ELSE Val(tasks[a].due_date) <= Val(tasks[b].due_date)

\* list_tasks: lines 40-66.  `if args.category` skips an empty category.
list_tasks(category) ==
    /\ \E rows \in SeqsUpTo(DOMAIN tasks, Cardinality(DOMAIN tasks)) :
          /\ Range(rows) = Active(IF category = Some("") THEN None ELSE category)
          /\ Len(rows) = Cardinality(Range(rows))
          /\ \A i, j \in 1..Len(rows) : i < j => Before(rows[i], rows[j])
          /\ para_out' = ParaOut("list", rows,
                                 IF rows = <<>> THEN <<"No active tasks found.">>
                                 ELSE <<"ID TITLE CAT STATUS DUE">>)
    /\ UNCHANGED <<tasks, para_now>>

\* SQLite's `str LIKE pattern`: % stands for any run of characters, _ for
\* any one character, letters compare without case.
RECURSIVE Like(_, _)
Like(str, pattern) ==
    IF pattern = <<>> THEN str = <<>>
    ELSE IF Head(pattern) = "%"
    THEN Like(str, Tail(pattern)) \/ (str # <<>> /\ Like(Tail(str), pattern))
    ELSE /\ str # <<>>
         /\ Head(pattern) = "_" \/ LowerChar(Head(pattern)) = LowerChar(Head(str))
         /\ Like(Tail(str), Tail(pattern))

\* complete_task: lines 68-77.
complete_task(id) ==
    LET hit == {t \in DOMAIN tasks : Like(t, id \o <<"%">>)}
    IN  /\ tasks' = [t \in DOMAIN tasks |->
                        IF t \in hit
                        THEN [tasks[t] EXCEPT !.status = Some("completed"),
                                              !.updated_at = Some(para_now)]
                        ELSE tasks[t]]
        /\ para_out' = ParaOut("done", id,
                               IF Cardinality(hit) > 0 THEN <<"Task marked as completed.">>
                               ELSE <<"Task not found">>)
        /\ UNCHANGED para_now

(***************************************************************************)
(* SpecPara: the task manager under add, list and done                     *)
(***************************************************************************)
DoneArgs ==
    {<<>>, <<"a">>, <<"a", "1">>, <<"A", "1">>, <<"b", "1", "x">>, <<"c">>, <<"%">>,
     <<"_", "1">>}

ParaRest ==
    UNCHANGED <<ceramics_vars, reader_vars, process_vars, sharepoint_vars, sanitizer_vars,
                wrapper_vars, chat_vars>>

ParaTick == para_now < MaxClock /\ para_now' = para_now + 1 /\ UNCHANGED <<tasks, para_out>>
                /\ ParaRest

ParaAdd ==
    /\ Cardinality(DOMAIN tasks) < MaxTasks
    /\ \E task_id \in TaskIds, category \in {"P", "A"}, priority \in {3, 1},
          due \in {None, Some("+1d"), Some("1970-01-02"), Some("soon"), Some("+d")},
          default_status \in {Some("pending"), None} :
          add_task(task_id, "t", category, priority, due, default_status)
    /\ ParaRest

ParaList ==
    /\ \E category \in {None, Some(""), Some("P"), Some("X")} : list_tasks(category)
    /\ ParaRest

ParaDone ==
    /\ \E id \in DoneArgs : complete_task(id)
    /\ ParaRest

NextPara == ParaTick \/ ParaAdd \/ ParaList \/ ParaDone

SpecPara == Init /\ [][NextPara]_vars

\* C23 (as claimed): `done <id>` marks the one task identified by the id
\* prefix as completed and leaves every other task unchanged, for every
\* argument string; when no task matches, no task changes and "Task not
\* found" is reported; a task marked completed is not shown by any later
\* `list`.
C23_DoneMarksOneTask ==
    [][/\ (para_out'.cmd = "done" /\ tasks' # tasks)
             => \E t \in DOMAIN tasks :
                   /\ tasks'[t].status = Some("completed")
                   /\ \A u \in DOMAIN tasks \ {t} : tasks'[u] = tasks[u]
       /\ (para_out'.cmd = "done" /\ para_out'.printed = <<"Task not found">>)
             => tasks' = tasks
       /\ (para_out'.cmd = "list")
             => \A i \in 1..Len(para_out'.arg) :
                   tasks[para_out'.arg[i]].status # Some("completed")]_vars

====
